---------------------------- MODULE Spec2Model ----------------------------
(***************************************************************************)
(* EVA Voyager 21 ground-station front end: the decoding core.             *)
(*                                                                         *)
(*   useWebSocketFeed  (src/src/lib/useWebSocketFeed.ts)                   *)
(*   Grid20x20         (src/src/components/Grid20x20.tsx)                  *)
(*   App               (src/src/App.tsx)                                   *)
(*   useTelemetry      (src/unnamed/part_001, TelemetryColumn.tsx)         *)
(*                                                                         *)
(* Texts are sequences of one-character strings, so that trim, split,      *)
(* startsWith and includes are computed character by character as the     *)
(* JavaScript does.  JSON values are tagged records.                       *)
(***************************************************************************)
EXTENDS Integers, Sequences, FiniteSets, TLC

(***************************************************************************)
(* Bounds of the model.                                                    *)
(***************************************************************************)
\* events counted in one behaviour of the serial, grid and connection
\* specifications
MaxFrames == 5
\* events counted in one behaviour of the two-hook specification Spec
MaxMsgs == 6
\* useWebSocketFeed(maxRows): the caller's cap on rows (App passes 900)
maxRows == 2
\* the console cap, the literal 2000 of useWebSocketFeed.ts:77, scaled down
ConsoleCap == 2
\* useTelemetry({maxBuffer}): the cap on records (default 1000)
maxBuffer == 2
\* WebSocket objects the feed hook may create in one behaviour
MaxSockets == 2
\* the sockets VisualColumn may create
MaxVisualSockets == 2
\* matrix lines received in a run of the decoder specification
MaxDecode == 3
\* frames received in a run of the field-coercion specification
MaxCoerce == 3

(***************************************************************************)
(* Program constants.                                                      *)
(***************************************************************************)
GRID_ROWS == 10
GRID_COLS == 10
START_ROW == GRID_ROWS - 1
START_COL == 0

(***************************************************************************)
(* Text: String.prototype operations on sequences of characters.           *)
(***************************************************************************)
MinOf(S) == CHOOSE x \in S : \A y \in S : x <= y
MaxOf(S) == CHOOSE x \in S : \A y \in S : x >= y

\* the white space String.prototype.trim removes (those the inputs use)
IsSpace(c) == c \in {" ", "\t", "\n", "\r"}

Trim(s) ==
    LET keep == {i \in 1..Len(s) : ~IsSpace(s[i])}
    IN  IF keep = {} THEN <<>> ELSE SubSeq(s, MinOf(keep), MaxOf(keep))

StartsWith(s, p) == Len(s) >= Len(p) /\ SubSeq(s, 1, Len(p)) = p

EndsWith(s, p) == Len(s) >= Len(p) /\ SubSeq(s, Len(s) - Len(p) + 1, Len(s)) = p

Includes(s, p) ==
    \E i \in 1..(Len(s) - Len(p) + 1) : SubSeq(s, i, i + Len(p) - 1) = p

RECURSIVE Join(_)
\* Array.prototype.join("")
Join(chunks) ==
    IF chunks = <<>> THEN <<>> ELSE Head(chunks) \o Join(Tail(chunks))

\* String.prototype.split(","): the texts between consecutive commas
Split(s) ==
    LET commas == {i \in 1..Len(s) : s[i] = ","}
        n == Cardinality(commas)
        \* the position of the k-th comma; 0 and Len(s) + 1 bound the text
        at(k) == IF k = 0 THEN 0
                 ELSE IF k = n + 1 THEN Len(s) + 1
                 ELSE CHOOSE i \in commas : Cardinality({j \in commas : j < i}) = k - 1
    IN  [k \in 1..(n + 1) |-> SubSeq(s, at(k - 1) + 1, at(k) - 1)]

UpperLetters ==
    <<"A", "B", "C", "D", "E", "F", "G", "H", "I", "J", "K", "L", "M",
      "N", "O", "P", "Q", "R", "S", "T", "U", "V", "W", "X", "Y", "Z">>
LowerLetters ==
    <<"a", "b", "c", "d", "e", "f", "g", "h", "i", "j", "k", "l", "m",
      "n", "o", "p", "q", "r", "s", "t", "u", "v", "w", "x", "y", "z">>

LowerChar(c) ==
    IF \E i \in 1..26 : UpperLetters[i] = c
    THEN LowerLetters[CHOOSE i \in 1..26 : UpperLetters[i] = c]
    ELSE c

\* String.prototype.toLowerCase
ToLower(s) == [i \in 1..Len(s) |-> LowerChar(s[i])]

(***************************************************************************)
(* The literals of the source.                                             *)
(***************************************************************************)
B64_IMAGE_START ==
    <<"B", "6", "4", "_", "I", "M", "A", "G", "E", "_", "S", "T", "A", "R", "T">>
B64_IMAGE_END ==
    <<"B", "6", "4", "_", "I", "M", "A", "G", "E", "_", "E", "N", "D">>
RECV_ROVER == <<"R", "E", "C", "V", "_", "R", "O", "V", "E", "R", "_">>
MatrixTag == <<",", "M", ",">>
DataPrefix == <<"d", "a", "t", "a", ":">>
Base64Infix == <<";", "b", "a", "s", "e", "6", "4", ",">>
ImageJpeg == <<"i", "m", "a", "g", "e", "/", "j", "p", "e", "g">>
ImagePng == <<"i", "m", "a", "g", "e", "/", "p", "n", "g">>

kType == <<"t", "y", "p", "e">>
kRow == <<"r", "o", "w">>
kData == <<"d", "a", "t", "a">>
kTs == <<"t", "s">>
kLine == <<"l", "i", "n", "e">>
kDataUrl == <<"d", "a", "t", "a", "_", "u", "r", "l">>
kB64 == <<"b", "6", "4">>
kMime == <<"m", "i", "m", "e">>
kChannel == <<"c", "h", "a", "n", "n", "e", "l">>
kKind == <<"k", "i", "n", "d">>
kPayload == <<"p", "a", "y", "l", "o", "a", "d">>
kTelemetry == <<"t", "e", "l", "e", "m", "e", "t", "r", "y">>
kTemp == <<"t", "e", "m", "p">>
kTime == <<"t", "i", "m", "e">>
kT == <<"t">>
kTimestamp == <<"t", "i", "m", "e", "s", "t", "a", "m", "p">>
tTelemetry == kTelemetry
tSerialIn == <<"s", "e", "r", "i", "a", "l", "_", "i", "n">>
tImage == <<"i", "m", "a", "g", "e">>

(***************************************************************************)
(* JSON values: t is the JavaScript type, n a number's value, s a string's *)
(* characters, o an object's entries in insertion order.                   *)
(***************************************************************************)
JV(t, n, s, o) == [t |-> t, n |-> n, s |-> s, o |-> o]
Undefined == JV("undef", 0, <<>>, <<>>)
JNull == JV("null", 0, <<>>, <<>>)
JNum(n) == JV("num", n, <<>>, <<>>)
JStr(s) == JV("str", 0, s, <<>>)
JBool(b) == JV("bool", IF b THEN 1 ELSE 0, <<>>, <<>>)
JArr == JV("arr", 0, <<>>, <<>>)
JObj(entries) == JV("obj", 0, <<>>, entries)
KV(k, v) == [k |-> k, v |-> v]

\* obj[key] / obj.key: undefined when obj has no such own property
Get(obj, key) ==
    IF obj.t = "obj" /\ \E i \in 1..Len(obj.o) : obj.o[i].k = key
    THEN obj.o[CHOOSE i \in 1..Len(obj.o) : obj.o[i].k = key].v
    ELSE Undefined

\* !v
Falsy(v) ==
    \/ v.t \in {"undef", "null"}
    \/ v.t = "num" /\ v.n = 0
    \/ v.t = "bool" /\ v.n = 0
    \/ v.t = "str" /\ v.s = <<>>

\* a ?? b
Coalesce(a, b) == IF a.t \in {"undef", "null"} THEN b ELSE a

\* an optional text: useState<string | null>
Null == [some |-> FALSE, val |-> <<>>]
Some(s) == [some |-> TRUE, val |-> s]


\* String(v) for a value that is neither null nor undefined
RECURSIVE Digits(_)
Digits(n) ==
    LET d == <<"0", "1", "2", "3", "4", "5", "6", "7", "8", "9">>
    IN  IF n < 10 THEN <<d[n + 1]>> ELSE Append(Digits(n \div 10), d[(n % 10) + 1])

StringOf(v) ==
    CASE v.t = "str" -> v.s
      [] v.t = "num" -> IF v.n < 0 THEN <<"-">> \o Digits(-v.n) ELSE Digits(v.n)
      [] v.t = "obj" ->
            <<"[", "o", "b", "j", "e", "c", "t", " ", "O", "b", "j", "e", "c", "t", "]">>
      [] v.t = "bool" ->
            IF v.n = 1 THEN <<"t", "r", "u", "e">> ELSE <<"f", "a", "l", "s", "e">>
      [] OTHER -> <<>>

(***************************************************************************)
(* Grid20x20.tsx: the matrix decoder.                                      *)
(***************************************************************************)
Cell(obstacle) == [visited |-> FALSE, obstacle |-> obstacle]

initialPose == [row |-> START_ROW, col |-> START_COL, dir |-> "N"]
ORIGIN_ROW == initialPose.row
ORIGIN_COL == initialPose.col

createEmptyGrid == [r \in 1..GRID_ROWS |-> [c \in 1..GRID_COLS |-> Cell(FALSE)]]

codeToDirection(code) ==
    CASE code = 2 -> "N"
      [] code = 3 -> "E"
      [] code = 4 -> "W"
      [] code = 5 -> "S"
      [] OTHER -> "N"

\* Number(ch) of one character; -1 stands for NaN
NumberOfChar(ch) ==
    LET d == <<"0", "1", "2", "3", "4", "5", "6", "7", "8", "9">>
    IN  IF \E i \in 1..10 : d[i] = ch THEN (CHOOSE i \in 1..10 : d[i] = ch) - 1
        ELSE IF IsSpace(ch) THEN 0
        ELSE -1

\* RowCells taking every digit from 1 on, the rover's too, as an obstacle
RowCellsAnyDigit(rowStr) ==
    LET trimmed == Trim(rowStr)
    IN  IF trimmed = <<>> THEN [c \in 1..GRID_COLS |-> Cell(FALSE)]
        ELSE [c \in 1..Len(trimmed) |-> Cell(NumberOfChar(trimmed[c]) >= 1)]

\* the cells of one row token (lines 104-135): a blank token is a row of
\* GRID_COLS empty cells, any other token gives one cell per character
RowCells(rowStr) ==
    LET trimmed == Trim(rowStr)
    IN  IF trimmed = <<>> THEN [c \in 1..GRID_COLS |-> Cell(FALSE)]
        ELSE [c \in 1..Len(trimmed) |-> Cell(NumberOfChar(trimmed[c]) = 1)]

NoPose == [some |-> FALSE, row |-> 0, col |-> 0, dir |-> "N"]
SomePose(row, col, dir) == [some |-> TRUE, row |-> row, col |-> col, dir |-> dir]

\* the 0-based columns of one trimmed row token that hold a rover digit
\* (lines 120, 125: v >= 2 && v <= 5)
RoverCols(trimmed) ==
    {c \in 0..(Len(trimmed) - 1) :
        NumberOfChar(trimmed[c + 1]) >= 2 /\ NumberOfChar(trimmed[c + 1]) <= 5}

\* ScanRows keeping the rover digit visited first, not the one visited last
ScanRowsFirstWins(rowTokens, numRows) ==
    LET tokenOf(visualRow) == Trim(rowTokens[(numRows - 1 - visualRow) + 1])
        hit == {v \in 0..(numRows - 1) : RoverCols(tokenOf(v)) # {}}
    IN  IF hit = {} THEN NoPose
        ELSE LET visualRow == MinOf(hit)
                 c == MinOf(RoverCols(tokenOf(visualRow)))
             IN  SomePose(visualRow, c,
                          codeToDirection(NumberOfChar(tokenOf(visualRow)[c + 1])))

\* ScanRows reading visual row v from token v: no bottom-up inversion
ScanRowsTokenOrder(rowTokens, numRows) ==
    LET tokenOf(visualRow) == Trim(rowTokens[visualRow + 1])
        hit == {v \in 0..(numRows - 1) : RoverCols(tokenOf(v)) # {}}
    IN  IF hit = {} THEN NoPose
        ELSE LET visualRow == MaxOf(hit)
                 c == MaxOf(RoverCols(tokenOf(visualRow)))
             IN  SomePose(visualRow, c,
                          codeToDirection(NumberOfChar(tokenOf(visualRow)[c + 1])))

\* roverPose after the loops of lines 100-136.  The outer loop visits the
\* visual rows 0, 1, ..., numRows - 1 (row v reads rowTokens[numRows - 1 - v]),
\* forEach visits the columns left to right, and every rover digit
\* overwrites roverPose (line 129): the digit visited last is the one kept.
ScanRows(rowTokens, numRows) ==
    LET tokenOf(visualRow) == Trim(rowTokens[(numRows - 1 - visualRow) + 1])
        hit == {v \in 0..(numRows - 1) : RoverCols(tokenOf(v)) # {}}
    IN  IF hit = {} THEN NoPose
        ELSE LET visualRow == MaxOf(hit)
                 c == MaxOf(RoverCols(tokenOf(visualRow)))
             IN  SomePose(visualRow, c,
                          codeToDirection(NumberOfChar(tokenOf(visualRow)[c + 1])))

\* the grid built by the loop: grid[visualRow] from rowTokens[numRows-1-visualRow]
BuildGrid(rowTokens, numRows) ==
    [r \in 1..numRows |-> RowCells(rowTokens[(numRows - 1 - (r - 1)) + 1])]

NoParse == [ok |-> FALSE, grid |-> <<>>, pose |-> NoPose]

parseMatrixLine(line) ==
    LET parts == Split(line)
        ms == {i \in 1..Len(parts) : parts[i] = <<"M">>}
    IN  IF ms = {} THEN NoParse
        ELSE LET idxM == MinOf(ms)
                 rowTokens == SubSeq(parts, idxM + 1, Len(parts))
                 numRows == IF Len(rowTokens) < GRID_ROWS THEN Len(rowTokens)
                            ELSE GRID_ROWS
             IN  IF Len(rowTokens) = 0 THEN NoParse
                 ELSE [ok |-> TRUE,
                       grid |-> BuildGrid(rowTokens, numRows),
                       pose |-> ScanRows(rowTokens, numRows)]

\* applyMatrix falling back to the empty grid and the initial pose when
\* the line does not parse
applyMatrixClearsOnFailure(gs, line) ==
    LET parsed == parseMatrixLine(line)
    IN  IF ~parsed.ok THEN [grid |-> createEmptyGrid, pose |-> initialPose]
        ELSE [grid |-> parsed.grid,
              pose |-> IF parsed.pose.some
                       THEN [row |-> parsed.pose.row, col |-> parsed.pose.col,
                             dir |-> parsed.pose.dir]
                       ELSE gs.pose]

\* applyMatrix setting the pose whatever parseMatrixLine returned for it
applyMatrixResetsPose(gs, line) ==
    LET parsed == parseMatrixLine(line)
    IN  IF ~parsed.ok THEN gs
        ELSE [grid |-> parsed.grid,
              pose |-> IF parsed.pose.some
                       THEN [row |-> parsed.pose.row, col |-> parsed.pose.col,
                             dir |-> parsed.pose.dir]
                       ELSE initialPose]

\* applyMatrix marking, in the new grid, the cell the rover stood on before
applyMatrixMarksVisited(gs, line) ==
    LET parsed == parseMatrixLine(line)
        marked == [r \in 1..Len(parsed.grid) |->
                      [c \in 1..Len(parsed.grid[r]) |->
                          IF r = gs.pose.row + 1 /\ c = gs.pose.col + 1
                          THEN [parsed.grid[r][c] EXCEPT !.visited = TRUE]
                          ELSE parsed.grid[r][c]]]
    IN  IF ~parsed.ok THEN gs
        ELSE [grid |-> marked,
              pose |-> IF parsed.pose.some
                       THEN [row |-> parsed.pose.row, col |-> parsed.pose.col,
                             dir |-> parsed.pose.dir]
                       ELSE gs.pose]

\* applyMatrix(line) on the component state gs = [grid, pose], lines 158-172
applyMatrix(gs, line) ==
    LET parsed == parseMatrixLine(line)
    IN  IF ~parsed.ok THEN gs
        ELSE [grid |-> parsed.grid,
              pose |-> IF parsed.pose.some
                       THEN [row |-> parsed.pose.row, col |-> parsed.pose.col,
                             dir |-> parsed.pose.dir]
                       ELSE gs.pose]

\* handleResetClick without the two lines that set the pose
handleResetClickKeepsPose(gs) == [grid |-> createEmptyGrid, pose |-> gs.pose]

\* handleResetClick on the component state
handleResetClick(gs) == [grid |-> createEmptyGrid, pose |-> initialPose]

\* toDisplayCoords with y growing downwards, like the matrix rows
toDisplayCoordsRowDown(p) == [x |-> p.col - ORIGIN_COL, y |-> p.row - ORIGIN_ROW]

\* lines 146-150
toDisplayCoords(p) == [x |-> p.col - ORIGIN_COL, y |-> ORIGIN_ROW - p.row]

(***************************************************************************)
(* useWebSocketFeed.ts: the handling of one serial line.                   *)
(***************************************************************************)
IdleCapture == [pending |-> FALSE, chunks |-> <<>>]

DataUrl(mime, base64) == DataPrefix \o mime \o Base64Infix \o base64

\* PushRow deleting one element fewer than the overflow
PushRowKeepsOneMore(prev, row) ==
    LET next == Append(prev, row)
    IN  IF Len(next) > maxRows + 1
        THEN SubSeq(next, (Len(next) - maxRows), Len(next))
        ELSE next

\* setRows((prev) => ...), lines 53-59
PushRow(prev, row) ==
    LET next == Append(prev, row)
    IN  IF Len(next) > maxRows
        THEN SubSeq(next, (Len(next) - maxRows) + 1, Len(next))
        ELSE next

\* setConsoleLines((prev) => ...), lines 75-81
PushConsole(prev, entry) ==
    LET next == Append(prev, entry)
    IN  IF Len(next) > ConsoleCap
        THEN SubSeq(next, (Len(next) - ConsoleCap) + 1, Len(next))
        ELSE next

\* The four branches of lines 84-119 act on st = [capture, image, matrix]:
\* imageCaptureRef.current, lastImageDataUrl and lastMatrixLine.

\* OnImageStart without "capture.chunks = []"
OnImageStartKeepsChunks(st) ==
    [st EXCEPT !.capture.pending = TRUE]

\* text === "B64_IMAGE_START", lines 86-90
OnImageStart(st) ==
    [st EXCEPT !.capture = [pending |-> TRUE, chunks |-> <<>>]]

\* OnImageEnd leaving the chunks where they are
OnImageEndKeepsChunks(st) ==
    [st EXCEPT !.image = IF st.capture.pending /\ Len(st.capture.chunks) > 0
                         THEN Some(DataUrl(ImageJpeg, Join(st.capture.chunks)))
                         ELSE @,
               !.capture.pending = FALSE]

\* OnImageEnd returning early, capture untouched, when it emits nothing
OnImageEndOnlyAfterEmit(st) ==
    IF st.capture.pending /\ Len(st.capture.chunks) > 0
    THEN [st EXCEPT !.image = Some(DataUrl(ImageJpeg, Join(st.capture.chunks))),
                    !.capture = [pending |-> FALSE, chunks |-> <<>>]]
    ELSE st

\* OnImageEnd without the test "capture.chunks.length > 0"
OnImageEndNoChunkTest(st) ==
    [st EXCEPT !.image = IF st.capture.pending
                         THEN Some(DataUrl(ImageJpeg, Join(st.capture.chunks)))
                         ELSE @,
               !.capture = [pending |-> FALSE, chunks |-> <<>>]]

\* text === "B64_IMAGE_END", lines 92-101
OnImageEnd(st) ==
    [st EXCEPT !.image = IF st.capture.pending /\ Len(st.capture.chunks) > 0
                         THEN Some(DataUrl(ImageJpeg, Join(st.capture.chunks)))
                         ELSE @,
               !.capture = [pending |-> FALSE, chunks |-> <<>>]]

\* OnChunk pushing text instead of text.trim()
OnChunkUntrimmed(st, text) ==
    [st EXCEPT !.capture.chunks = Append(@, text)]

\* capture.pending, lines 103-107
OnChunk(st, text) ==
    [st EXCEPT !.capture.chunks = Append(@, Trim(text))]

\* OnIdleLine taking a line that passes either test of the detection
OnIdleLineEitherTest(st, text) ==
    IF StartsWith(text, RECV_ROVER) \/ Includes(text, MatrixTag)
    THEN [st EXCEPT !.matrix = Some(text)]
    ELSE st

\* the matrix detection, lines 112-117
OnIdleLine(st, text) ==
    IF StartsWith(text, RECV_ROVER) /\ Includes(text, MatrixTag)
    THEN [st EXCEPT !.matrix = Some(text)]
    ELSE st

\* SerialLine without the "return" of line 106: a chunk line goes on to the
\* matrix detection
SerialLineUnshadowed(st, text) ==
    IF text = B64_IMAGE_START THEN OnImageStart(st)
    ELSE IF text = B64_IMAGE_END THEN OnImageEnd(st)
    ELSE IF st.capture.pending THEN OnIdleLine(OnChunk(st, text), text)
    ELSE OnIdleLine(st, text)

\* lines 84-119
SerialLine(st, text) ==
    IF text = B64_IMAGE_START THEN OnImageStart(st)
    ELSE IF text = B64_IMAGE_END THEN OnImageEnd(st)
    ELSE IF st.capture.pending THEN OnChunk(st, text)
    ELSE OnIdleLine(st, text)

(***************************************************************************)
(* useWebSocketFeed.ts: handleMessage on fs = [rows, consoleLines,         *)
(* capture, image, matrix].  A message is [ok, lead, v]: ok says that      *)
(* JSON.parse(event.data) returns, v is the value it returns, lead that    *)
(* the trimmed text starts with "{" or "[".                                *)
(***************************************************************************)
\* HandleTelemetry starting the chunks of a pending capture afresh
HandleTelemetryClearsChunks(fs, msg) ==
    LET row == Coalesce(Get(msg, kRow), Coalesce(Get(msg, kData), JNull))
    IN  IF Falsy(row) THEN fs
        ELSE [fs EXCEPT !.rows = PushRow(@, row), !.capture.chunks = <<>>]

\* HandleTelemetry cutting the overflow off the end (next.length = maxRows)
HandleTelemetryDropsNewest(fs, msg) ==
    LET row == Coalesce(Get(msg, kRow), Coalesce(Get(msg, kData), JNull))
        next == Append(fs.rows, row)
    IN  IF Falsy(row) THEN fs
        ELSE [fs EXCEPT !.rows = IF Len(next) > maxRows THEN SubSeq(next, 1, maxRows)
                                 ELSE next]

\* HandleTelemetry with the two fields in the other order: msg.data ?? msg.row
HandleTelemetryDataFirst(fs, msg) ==
    LET row == Coalesce(Get(msg, kData), Coalesce(Get(msg, kRow), JNull))
    IN  IF Falsy(row) THEN fs
        ELSE [fs EXCEPT !.rows = PushRow(@, row)]

\* lines 49-61
HandleTelemetry(fs, msg) ==
    LET row == Coalesce(Get(msg, kRow), Coalesce(Get(msg, kData), JNull))
    IN  IF Falsy(row) THEN fs
        ELSE [fs EXCEPT !.rows = PushRow(@, row)]

\* lines 65-66
SerialTs(msg, now) ==
    IF Get(msg, kTs).t = "num" THEN Get(msg, kTs).n * 1000 ELSE now

\* SerialText without the test for null: String(msg.line) in every case
SerialTextOfNull(msg) ==
    LET line == Get(msg, kLine)
    IN  IF line.t = "str" THEN line.s
        ELSE IF line.t = "null" THEN <<"n", "u", "l", "l">>
        ELSE IF line.t = "undef" THEN <<"u", "n", "d", "e", "f", "i", "n", "e", "d">>
        ELSE StringOf(line)

\* lines 67-72
SerialText(msg) ==
    LET line == Get(msg, kLine)
    IN  IF line.t = "str" THEN line.s
        ELSE IF line.t \notin {"null", "undef"} THEN StringOf(line)
        ELSE <<>>

\* HandleSerialIn logging a line only when it is not part of an image: the
\* console append moved behind the marker and capture branches
HandleSerialInUnloggedCapture(fs, msg, now) ==
    LET text == SerialText(msg)
        st == SerialLine([capture |-> fs.capture, image |-> fs.image,
                          matrix |-> fs.matrix], text)
        framed == fs.capture.pending \/ text \in {B64_IMAGE_START, B64_IMAGE_END}
    IN  [rows |-> fs.rows,
         consoleLines |->
             IF framed THEN fs.consoleLines
             ELSE PushConsole(fs.consoleLines, [ts |-> SerialTs(msg, now), text |-> text]),
         capture |-> st.capture,
         image |-> st.image,
         matrix |-> st.matrix]

\* lines 64-120
HandleSerialIn(fs, msg, now) ==
    LET text == SerialText(msg)
        st == SerialLine([capture |-> fs.capture, image |-> fs.image,
                          matrix |-> fs.matrix], text)
    IN  [rows |-> fs.rows,
         consoleLines |->
             PushConsole(fs.consoleLines, [ts |-> SerialTs(msg, now), text |-> text]),
         capture |-> st.capture,
         image |-> st.image,
         matrix |-> st.matrix]

\* HandleImage ending a pending capture when it sets the image
HandleImageEndsCapture(fs, msg) ==
    IF Get(msg, kDataUrl).t = "str"
    THEN [fs EXCEPT !.image = Some(Get(msg, kDataUrl).s), !.capture = IdleCapture]
    ELSE IF Get(msg, kB64).t = "str"
    THEN LET mime == IF Get(msg, kMime).t = "str" THEN Get(msg, kMime).s
                     ELSE ImageJpeg
         IN  [fs EXCEPT !.image = Some(DataUrl(mime, Get(msg, kB64).s)),
                        !.capture = IdleCapture]
    ELSE fs

\* lines 123-130
HandleImage(fs, msg) ==
    IF Get(msg, kDataUrl).t = "str"
    THEN [fs EXCEPT !.image = Some(Get(msg, kDataUrl).s)]
    ELSE IF Get(msg, kB64).t = "str"
    THEN LET mime == IF Get(msg, kMime).t = "str" THEN Get(msg, kMime).s
                     ELSE ImageJpeg
         IN  [fs EXCEPT !.image = Some(DataUrl(mime, Get(msg, kB64).s))]
    ELSE fs

\* lines 41-136; a throwing JSON.parse is caught and logged
handleMessage(fs, data, now) ==
    IF ~data.ok THEN fs
    ELSE LET msg == data.v
             type == Get(msg, kType)
         IN  IF Falsy(msg) \/ type.t # "str" THEN fs
             ELSE IF type.s = tTelemetry THEN HandleTelemetry(fs, msg)
             ELSE IF type.s = tSerialIn THEN HandleSerialIn(fs, msg, now)
             ELSE IF type.s = tImage THEN HandleImage(fs, msg)
             ELSE fs

(***************************************************************************)
(* TelemetryColumn.tsx (src/unnamed/part_001): useTelemetry's onmessage on *)
(* ps = [records, seqRef].  Numbers that are timestamps are counted in     *)
(* units of 10^4, so that 1e12 is MsThreshold.                             *)
(***************************************************************************)
MsThreshold == 100000000

isPlainObject(v) == v.t = "obj"

TelemetryHints ==
    { <<"r", "s", "s", "i">>, <<"t", "e", "m", "p">>, <<"h", "u", "m">>,
      <<"d", "i", "s", "t">>, <<"g", "y", "r", "o">>, <<"a", "c", "c">>,
      <<"m", "o", "t", "o", "r">>, <<"v", "m", "1">>, <<"v", "m", "2">>,
      <<"i", "m", "1">>, <<"i", "m", "2">> }

\* looksLikeTelemetry taking every plain object for telemetry
looksLikeAnyObject(o) == isPlainObject(o)

\* lines 460-477
looksLikeTelemetry(o) ==
    /\ isPlainObject(o)
    /\ \E i \in 1..Len(o.o) : \E h \in TelemetryHints : Includes(ToLower(o.o[i].k), h)

IsDigits(s) ==
    /\ s # <<>>
    /\ \A i \in 1..Len(s) : NumberOfChar(s[i]) >= 0 /\ ~IsSpace(s[i])

RECURSIVE DigitsValue(_)
DigitsValue(s) ==
    IF s = <<>> THEN 0
    ELSE DigitsValue(SubSeq(s, 1, Len(s) - 1)) * 10 + NumberOfChar(s[Len(s)])

\* one candidate of extractTs: [some, ms]; a string that is not a number
\* is handed to Date, which the inputs never make a valid date
TsOfCandidate(c) ==
    IF c.t = "str" /\ IsDigits(c.s)
    THEN LET num == DigitsValue(c.s)
         IN  [some |-> TRUE, ms |-> IF num > MsThreshold THEN num ELSE num * 1000]
    ELSE IF c.t = "num"
    THEN [some |-> TRUE, ms |-> IF c.n > MsThreshold THEN c.n ELSE c.n * 1000]
    ELSE [some |-> FALSE, ms |-> 0]

extractTs(raw, payload) ==
    LET candidates == << Get(raw, kTs), Get(raw, kTime), Get(raw, kT),
                         Get(payload, kTs), Get(payload, kTime), Get(payload, kT),
                         Get(payload, kTimestamp) >>
        hits == {i \in 1..Len(candidates) : TsOfCandidate(candidates[i]).some}
    IN  IF hits = {} THEN [some |-> FALSE, ms |-> 0]
        ELSE TsOfCandidate(candidates[MinOf(hits)])

\* lines 582-616: the payload the panel finds in obj, or undefined
TelemetryPayload(obj) ==
    LET typeRaw == Coalesce(Get(obj, kType),
                            Coalesce(Get(obj, kChannel), Get(obj, kKind)))
        type == IF typeRaw.t = "str" THEN ToLower(typeRaw.s) ELSE <<>>
        inner == Coalesce(Get(obj, kData),
                          Coalesce(Get(obj, kPayload),
                                   Coalesce(Get(obj, kTelemetry), JNull)))
    IN  IF Includes(type, kTelemetry) /\ isPlainObject(inner) THEN inner
        ELSE IF isPlainObject(Get(obj, kTelemetry)) THEN Get(obj, kTelemetry)
        ELSE IF isPlainObject(Get(obj, kData)) /\ looksLikeTelemetry(Get(obj, kData))
        THEN Get(obj, kData)
        ELSE IF looksLikeTelemetry(obj) THEN obj
        ELSE Undefined

\* setRecords((prev) => ...), lines 629-633
PushRecord(prev, rec) ==
    LET next == <<rec>> \o prev
    IN  IF Len(next) > maxBuffer THEN SubSeq(next, 1, maxBuffer) ELSE next

\* ws.onmessage, lines 572-637
telemetryOnMessage(ps, data, nowIso) ==
    IF ~data.lead THEN ps
    ELSE IF ~data.ok THEN ps
    ELSE IF ~isPlainObject(data.v) THEN ps
    ELSE LET payload == TelemetryPayload(data.v)
             found == extractTs(data.v, payload)
             ts == IF found.some THEN found.ms ELSE nowIso
         IN  IF payload.t = "undef" THEN ps
             ELSE [records |-> PushRecord(ps.records,
                                   [ts |-> ts, data |-> payload, seq |-> ps.seqRef + 1]),
                   seqRef |-> ps.seqRef + 1]

\* NAMES.rssi, part_001 line 743
NAMES_rssi == <<<<"R", "s", "s", "i">>, <<"R", "S", "S", "I">>, <<"r", "s", "s", "i">>,
                <<"r", "s", "s", "i", "_", "d", "b", "m">>,
                <<"d", "b", "m">>>>

\* NAMES.temp1, part_001 line 746
NAMES_temp1 ==
    <<<<"T", "e", "m", "p", " ", "1">>, <<"T", "e", "m", "p", "1">>,
      <<"t", "e", "m", "p", "1">>,
      <<"t", "e", "m", "p", "e", "r", "a", "t", "u", "r", "e", "1">>,
      <<"t", "1">>>>

\* NAMES.hum1, part_001 line 747
NAMES_hum1 ==
    <<<<"H", "u", "m", " ", "1">>, <<"H", "u", "m", "1">>,
      <<"h", "u", "m", "1">>,
      <<"h", "u", "m", "i", "d", "i", "t", "y", "1">>, <<"h", "1">>,
      <<"r", "h", "1">>>>

\* NAMES.iEsp, part_001 line 752
NAMES_iEsp ==
    <<<<"I", " ", "E", "s", "p">>, <<"I", "_", "E", "s", "p">>,
      <<"i", "_", "e", "s", "p">>, <<"e", "s", "p", "_", "i">>,
      <<"i", "_", "t", "o", "t", "a", "l">>>>

\* NAMES.pEsp, part_001 line 753
NAMES_pEsp ==
    <<<<"P", " ", "E", "s", "p">>, <<"P", "_", "E", "s", "p">>,
      <<"p", "_", "e", "s", "p">>, <<"e", "s", "p", "_", "p">>,
      <<"p", "o", "w", "e", "r">>>>

\* NAMES.dist1, part_001 line 770
NAMES_dist1 ==
    <<<<"D", "i", "s", "t", " ", "1">>, <<"D", "i", "s", "t", "1">>,
      <<"d", "i", "s", "t", "1">>,
      <<"d", "i", "s", "t", "a", "n", "c", "e", "1">>,
      <<"u", "l", "t", "r", "a", "1">>>>

\* NAMES.vEsp, part_001 line 751
NAMES_vEsp ==
    <<<<"V", " ", "E", "s", "p">>, <<"V", "_", "E", "s", "p">>,
      <<"v", "_", "e", "s", "p">>, <<"e", "s", "p", "_", "v">>,
      <<"v", "_", "b", "u", "s">>, <<"v", "_", "b", "a", "t", "t">>,
      <<"v", "b", "a", "t", "t">>>>

\* norm of line 686: lower case, then white space, "_" and "-" removed
norm(s) == SelectSeq(ToLower(s), LAMBDA c : ~IsSpace(c) /\ c \notin {"_", "-"})

\* Object.keys(obj)
KeysOf(obj) == [j \in 1..Len(obj.o) |-> obj.o[j].k]

\* getField walking the keys of the record and returning the first that
\* is an alias: the order of the record decides
getFieldRecordOrder(obj, names) ==
    LET keys == KeysOf(obj)
        known == {j \in 1..Len(keys) : \E i \in 1..Len(names) : names[i] = keys[j]}
    IN  IF known = {} THEN Undefined ELSE obj.o[MinOf(known)].v

\* getField trying the three matches alias by alias: the first alias that
\* matches in any way wins
getFieldAliasFirst(obj, names) ==
    LET keys == KeysOf(obj)
        ways(n) == {j \in 1..Len(keys) : norm(keys[j]) = norm(n)}
        any == {i \in 1..Len(names) : ways(names[i]) # {}}
    IN  IF any = {} THEN Undefined
        ELSE LET n == names[MinOf(any)]
                 lowers == {j \in 1..Len(keys) : ToLower(keys[j]) = ToLower(n)}
             IN  IF \E j \in 1..Len(keys) : keys[j] = n THEN Get(obj, n)
                 ELSE IF lowers # {} THEN Get(obj, keys[MaxOf(lowers)])
                 ELSE Get(obj, keys[MaxOf(ways(n))])

\* getField, lines 673-699.  Each pass walks names in order and returns at
\* the first name that matches; the maps of passes 2 and 3 are filled key
\* by key, so of several keys with one lowered (normalised) form the last
\* is the one a name finds.
getField(obj, names) ==
    LET keys == KeysOf(obj)
        exact == {i \in 1..Len(names) : \E j \in 1..Len(keys) : keys[j] = names[i]}
        lowerOf(n) == {j \in 1..Len(keys) : ToLower(keys[j]) = ToLower(n)}
        lower == {i \in 1..Len(names) : lowerOf(names[i]) # {}}
        normOf(n) == {j \in 1..Len(keys) : norm(keys[j]) = norm(n)}
        normMap == {i \in 1..Len(names) : normOf(names[i]) # {}}
    IN  IF exact # {} THEN Get(obj, names[MinOf(exact)])
        ELSE IF lower # {} THEN Get(obj, keys[MaxOf(lowerOf(names[MinOf(lower)]))])
        ELSE IF normMap # {} THEN Get(obj, keys[MaxOf(normOf(names[MinOf(normMap)]))])
        ELSE Undefined

(***************************************************************************)
(* ChartsColumn.tsx (src/unnamed/part_000).  Numbers that are timestamps   *)
(* are counted in units of 10^4, as in the panel: 1e12 is SecondsBelow and *)
(* the windowSec * 1000 of a window of 10 seconds is 1.                    *)
(***************************************************************************)
SecondsBelow == 100000000
windowSec == 10

NoMillis == [some |-> FALSE, ms |-> 0]

\* "2023-11-14T22:13:20Z", which is 1 700 000 000 000 ms
isoText == <<"2", "0", "2", "3", "-", "1", "1", "-", "1", "4", "T", "2", "2", ":", "1", "3", ":", "2", "0", "Z">>

\* Date.parse on the texts that the rows of the inputs hold: the ISO text
\* above is a date, no other is
DateParse(s) == IF s = isoText THEN [some |-> TRUE, ms |-> 170000000] ELSE NoMillis

\* lines 37-47; String(v) of a boolean or an object is not a date
toMillis(v) ==
    IF v.t \in {"undef", "null"} THEN NoMillis
    ELSE IF v.t = "num"
    THEN [some |-> TRUE, ms |-> IF v.n < SecondsBelow THEN v.n * 1000 ELSE v.n]
    ELSE IF v.t = "str" THEN DateParse(v.s)
    ELSE NoMillis

\* a ?? b on the results of toMillis
OrElse(a, b) == IF a.some THEN a ELSE b

\* rowTsMs reading the four fields in the opposite order
rowTsMsLastFirst(r) ==
    OrElse(toMillis(Get(r, kTimestamp)),
           OrElse(toMillis(Get(r, kT)),
                  OrElse(toMillis(Get(r, kTime)), toMillis(Get(r, kTs)))))

\* tsMs of lines 149-153
rowTsMs(r) ==
    OrElse(toMillis(Get(r, kTs)),
           OrElse(toMillis(Get(r, kTime)),
                  OrElse(toMillis(Get(r, kT)), toMillis(Get(r, kTimestamp)))))

\* lines 146-158: the rows that have a timestamp, each with its __ts_ms
rowsWithTs(chartRows) ==
    LET kept == SelectSeq(chartRows, LAMBDA r : rowTsMs(r).some)
    IN  [i \in 1..Len(kept) |-> [row |-> kept[i], ts_ms |-> rowTsMs(kept[i]).ms]]

\* filtered.sort((a, b) => a.__ts_ms - b.__ts_ms), line 169: the sort is
\* stable, rows of one timestamp keep their order
RECURSIVE SortByTs(_)
SortByTs(rs) ==
    IF rs = <<>> THEN <<>>
    ELSE LET least == MinOf({rs[i].ts_ms : i \in 1..Len(rs)})
             first == MinOf({i \in 1..Len(rs) : rs[i].ts_ms = least})
         IN  <<rs[first]>> \o
             SortByTs(SubSeq(rs, 1, first - 1) \o SubSeq(rs, first + 1, Len(rs)))

\* windowed keeping only the rows newer than the start of the window
windowedAfterFrom(withTs, seconds) ==
    IF withTs = <<>> THEN <<>>
    ELSE LET lastTs == MaxOf({withTs[i].ts_ms : i \in 1..Len(withTs)})
             from == lastTs - (seconds * 1000) \div 10000
         IN  SortByTs(SelectSeq(withTs, LAMBDA r : r.ts_ms > from))

\* lines 161-171, for rowsWithTs and windowSec
windowed(withTs, seconds) ==
    IF withTs = <<>> THEN <<>>
    ELSE LET lastTs == MaxOf({withTs[i].ts_ms : i \in 1..Len(withTs)})
             from == lastTs - (seconds * 1000) \div 10000
         IN  SortByTs(SelectSeq(withTs, LAMBDA r : r.ts_ms >= from))

\* defaultAliases.distance, lines 183-221
A_distance ==
    <<<<"d", "i", "s", "t", "1">>, <<"d", "i", "s", "t", "2">>,
      <<"d", "i", "s", "t", "3">>,
      <<"d", "i", "s", "t", "a", "n", "c", "e">>,
      <<"d", "i", "s", "t", "a", "n", "c", "e", "_", "c", "m">>,
      <<"u", "l", "t", "r", "a", "1">>, <<"u", "l", "t", "r", "a", "2">>,
      <<"u", "l", "t", "r", "a", "3">>>>
\* defaultAliases.current, lines 183-221
A_current ==
    <<<<"i">>, <<"i", "_", "t", "o", "t", "a", "l">>,
      <<"c", "u", "r", "r", "e", "n", "t">>,
      <<"i", "_", "l", "e", "f", "t">>,
      <<"i", "_", "r", "i", "g", "h", "t">>,
      <<"i", "_", "m", "o", "t", "o", "r", "_", "l", "e", "f", "t">>,
      <<"i", "_", "m", "o", "t", "o", "r", "_", "r", "i", "g", "h", "t">>,
      <<"e", "s", "p", "_", "i">>,
      <<"c", "u", "r", "r", "e", "n", "t", "_", "a">>,
      <<"i", "_", "e", "s", "p">>, <<"i", "_", "m", "1">>,
      <<"i", "_", "m", "2">>>>
\* defaultAliases.voltage, lines 183-221
A_voltage ==
    <<<<"v">>, <<"v", "o", "l", "t", "a", "g", "e">>,
      <<"v", "_", "b", "u", "s">>, <<"v", "_", "b", "a", "t", "t">>,
      <<"e", "s", "p", "_", "v">>, <<"v", "b", "a", "t", "t">>,
      <<"v", "o", "u", "t">>, <<"v", "_", "e", "s", "p">>,
      <<"v", "_", "m", "1">>, <<"v", "_", "m", "2">>>>
\* defaultAliases.temperature, lines 183-221
A_temperature ==
    <<<<"t", "e", "m", "p", "1">>, <<"t", "e", "m", "p", "2">>,
      <<"t", "e", "m", "p", "e", "r", "a", "t", "u", "r", "e">>,
      <<"t", "1">>, <<"t", "2">>>>

\* r[name] or r.data?.[name] when one of them is a number, else null
\* (lines 234-236 and 251-258)
NumericAt(r, name) ==
    IF Get(r, name).t = "num" THEN Get(r, name)
    ELSE IF Get(Get(r, kData), name).t = "num" THEN Get(Get(r, kData), name)
    ELSE JNull

\* pickExistingNumericKeys walking the keys of the rows and keeping those
\* that are candidates: the order of the record, not of the table
pickKeysInRecordOrder(win, candidates, maxN) ==
    LET keys == IF win = <<>> THEN <<>> ELSE KeysOf(win[Len(win)].row)
        found == SelectSeq(keys, LAMBDA k :
                     /\ \E i \in 1..Len(candidates) : candidates[i] = k
                     /\ \E j \in 1..Len(win) : NumericAt(win[j].row, k).t = "num")
    IN  SubSeq(found, 1, IF Len(found) < maxN THEN Len(found) ELSE maxN)

\* lines 227-242, for maxN >= 1: the first maxN candidates, in the order
\* of the table, that some row of the window holds as a number
pickExistingNumericKeys(win, candidates, maxN) ==
    LET found == SelectSeq(candidates, LAMBDA name :
                     \E j \in 1..Len(win) : NumericAt(win[j].row, name).t = "num")
    IN  SubSeq(found, 1, IF Len(found) < maxN THEN Len(found) ELSE maxN)

\* a number raw / den
Ratio(raw, den) == [num |-> raw, den |-> den]

\* lines 50-97
normalizeValue(key, raw) ==
    LET k == ToLower(key)
    IN  IF Includes(k, <<"t", "e", "m", "p">>) \/ k = <<"t", "1">> \/ k = <<"t", "2">> THEN Ratio(raw, 100)
        ELSE IF Includes(k, <<"h", "u", "m">>) THEN Ratio(raw, 100)
        ELSE IF \/ k = <<"v">>
                \/ Includes(k, <<"v", "o", "l", "t">>)
                \/ Includes(k, <<"v", "b", "a", "t", "t">>)
                \/ Includes(k, <<"v", "b", "u", "s">>)
                \/ StartsWith(k, <<"v", "_">>)
                \/ EndsWith(k, <<"_", "v">>)
        THEN Ratio(raw, 1000)
        ELSE IF \/ k = <<"i">>
                \/ Includes(k, <<"c", "u", "r", "r", "e", "n", "t">>)
                \/ StartsWith(k, <<"i", "_">>)
                \/ EndsWith(k, <<"_", "i">>)
        THEN Ratio(raw, 1000)
        ELSE IF \/ k = <<"p">>
                \/ Includes(k, <<"p", "o", "w", "e", "r">>)
                \/ EndsWith(k, <<"_", "w">>)
                \/ Includes(k, <<"m", "w">>)
        THEN Ratio(raw, 1000)
        ELSE Ratio(raw, 1)

\* the data of one dataset, lines 250-261: null, or the normalised number,
\* for each row of the window
DatasetOf(win, k) ==
    [j \in 1..Len(win) |->
        IF NumericAt(win[j].row, k).t = "num"
        THEN [some |-> TRUE, value |-> normalizeValue(k, NumericAt(win[j].row, k).n)]
        ELSE [some |-> FALSE, value |-> Ratio(0, 1)]]

\* lines 247-273: one dataset per key
buildDatasets(win, keys) ==
    [i \in 1..Len(keys) |-> [label |-> keys[i], data |-> DatasetOf(win, keys[i])]]

(***************************************************************************)
(* part_001: the formatting of the panel's values.                         *)
(***************************************************************************)
\* the two characters of the panel's texts that are not ASCII
EnDash == "<U+2013>"
Degree == "<U+00B0>"

\* Infinity, the number JSON.parse makes of 1e999: typeof "number", not
\* finite.  Only records of the panel hold it.
JInfinity == JV("inf", 0, <<>>, <<>>)

IsDigit(c) == c \in {"0", "1", "2", "3", "4", "5", "6", "7", "8", "9"}

\* the end of the run of digits that starts at a
DigitsEnd(s, a) == MaxOf({j \in a..Len(s) : \A k \in a..j : IsDigit(s[k])})

TenTo(n) == IF n = 0 THEN 1 ELSE IF n = 1 THEN 10 ELSE IF n = 2 THEN 100 ELSE 1000

NoNumber == [some |-> FALSE, value |-> Ratio(0, 1)]

\* Number(v.match(/-?\d+(\.\d+)?/)[0]), lines 666-667: the leftmost match,
\* for texts of at most three decimals
FirstNumber(s) ==
    LET starts == {i \in 1..Len(s) :
                      \/ IsDigit(s[i])
                      \/ s[i] = "-" /\ i < Len(s) /\ IsDigit(s[i + 1])}
    IN  IF starts = {} THEN NoNumber
        ELSE LET i == MinOf(starts)
                 a == IF s[i] = "-" THEN i + 1 ELSE i
                 b == DigitsEnd(s, a)
                 hasFrac == b + 2 <= Len(s) /\ s[b + 1] = "." /\ IsDigit(s[b + 2])
                 frac == IF hasFrac THEN SubSeq(s, b + 2, DigitsEnd(s, b + 2)) ELSE <<>>
                 den == TenTo(Len(frac))
                 abs == DigitsValue(SubSeq(s, a, b)) * den + DigitsValue(frac)
             IN  [some |-> TRUE,
                  value |-> Ratio(IF s[i] = "-" THEN -abs ELSE abs, den)]

\* toNumberOrUndefined returning 0 where it finds no number
toNumberOrZero(v) ==
    IF v.t = "num" THEN [some |-> TRUE, value |-> Ratio(v.n, 1)]
    ELSE IF v.t = "str" /\ FirstNumber(v.s).some THEN FirstNumber(v.s)
    ELSE [some |-> TRUE, value |-> Ratio(0, 1)]

\* lines 662-670
toNumberOrUndefined(v) ==
    IF v.t \in {"null", "undef"} THEN NoNumber
    ELSE IF v.t = "num" THEN [some |-> TRUE, value |-> Ratio(v.n, 1)]
    ELSE IF v.t = "str" THEN FirstNumber(v.s)
    ELSE NoNumber

\* n.toFixed(2) for a number num/den that is not halfway between two
\* hundredths
ToFixed2(r) ==
    LET abs == IF r.num < 0 THEN -r.num ELSE r.num
        h == (abs * 200 + r.den) \div (2 * r.den)
    IN  (IF r.num < 0 THEN <<"-">> ELSE <<>>) \o Digits(h \div 100) \o <<".">>
            \o Digits((h % 100) \div 10) \o Digits(h % 10)

WithUnit(text, unit) == IF unit = <<>> THEN text ELSE text \o <<" ">> \o unit

\* lines 701-705; unit <<>> when the caller gives none
fmt(v, unit) ==
    LET n == toNumberOrUndefined(v)
    IN  IF ~n.some THEN <<EnDash>> ELSE WithUnit(ToFixed2(n.value), unit)

\* lines 708-713
fmtScaled100(v, unit) ==
    LET n == toNumberOrUndefined(v)
    IN  IF ~n.some THEN <<EnDash>>
        ELSE WithUnit(ToFixed2(Ratio(n.value.num, n.value.den * 100)), unit)

\* the texts of six lines of the panel for the record d, lines 999-1068
PanelLines(d) ==
    [temp1 |-> fmtScaled100(getField(d, NAMES_temp1), <<Degree, "C">>),
     hum1 |-> fmtScaled100(getField(d, NAMES_hum1), <<"%">>),
     vEsp |-> fmt(getField(d, NAMES_vEsp), <<"m", "V">>),
     iEsp |-> fmt(getField(d, NAMES_iEsp), <<"m", "A">>),
     pEsp |-> fmt(getField(d, NAMES_pEsp), <<"m", "W">>),
     dist1 |-> fmt(getField(d, NAMES_dist1), <<>>)]

(***************************************************************************)
(* App.tsx: the image recomputed from the console.                         *)
(***************************************************************************)
\* getLineText of lines 13-24 for the entries {ts, text} of consoleLines
getLineText(item) == item.text

\* extractLastImageFromConsole, lines 32-61: [some, val].  The loop keeps
\* the buffer of the last block START, lines, END that holds a line; read
\* here as the block with the greatest END among the pairs START < END
\* with lines, and no marker, between them.
extractLastImageFromConsole(lines) ==
    LET raws == SelectSeq([i \in 1..Len(lines) |-> Trim(getLineText(lines[i]))],
                          LAMBDA raw : raw # <<>>)
        IsMarker(i) == raws[i] = B64_IMAGE_START \/ raws[i] = B64_IMAGE_END
        blocks == {b \in (1..Len(raws)) \X (1..Len(raws)) :
                      /\ raws[b[1]] = B64_IMAGE_START
                      /\ raws[b[2]] = B64_IMAGE_END
                      /\ b[1] + 1 < b[2]
                      /\ \A i \in (b[1] + 1)..(b[2] - 1) : ~IsMarker(i)}
    IN  IF blocks = {} THEN Null
        ELSE LET last == CHOOSE b \in blocks : \A c \in blocks : c[2] <= b[2]
             IN  Some(Join(SubSeq(raws, last[1] + 1, last[2] - 1)))

(***************************************************************************)
(* State.                                                                  *)
(***************************************************************************)
VARIABLES
    \* useWebSocketFeed
    status, socketRef, sockets,
    rows, consoleLines, lastImageDataUrl, lastMatrixLine, capture,
    \* useTelemetry
    panelStatus, records, seqRef,
    \* App and Grid20x20
    showGrid, grid, pose, clears, inFlight,
    \* history: the events counted, the last event, the state before it, the
    \* rows of the accepted telemetry frames, the image framing of the serial
    \* stream (open: a B64_IMAGE_START has arrived and no B64_IMAGE_END since;
    \* lines: the serial lines received after the most recent START, up to
    \* the END that followed it), whether that START discarded chunks, the
    \* matrix line accepted last since the last reset
    nframes, ev, prev, accepted, sinceStart, dropped, sinceReset,
    \* VisualColumn: whether it is mounted, its sockets and wsRef.current, the
    \* reconnect timers pending, its state and its imageDataUrl prop
    alive, wsRef, visualSockets, timers,
    wsStatus, isCapturing, lastFrame, frameMime, imageDataUrl

feedVars == <<rows, consoleLines, lastImageDataUrl, lastMatrixLine, capture>>
connVars == <<status, socketRef, sockets>>
panelVars == <<panelStatus, records, seqRef>>
gridVars == <<showGrid, grid, pose, clears, inFlight>>
histVars == <<nframes, ev, prev, accepted, sinceStart, dropped, sinceReset>>
visualVars == <<alive, wsRef, visualSockets, timers,
                wsStatus, isCapturing, lastFrame, frameMime, imageDataUrl>>
vars == <<feedVars, connVars, panelVars, gridVars, histVars, visualVars>>

Feed ==
    [rows |-> rows, consoleLines |-> consoleLines, capture |-> capture,
     image |-> lastImageDataUrl, matrix |-> lastMatrixLine]
Panel == [records |-> records, seqRef |-> seqRef]
GridState == [grid |-> grid, pose |-> pose]
Snapshot ==
    [feed |-> Feed, panel |-> Panel, gridc |-> GridState, showGrid |-> showGrid,
     clears |-> clears, status |-> status, socketRef |-> socketRef]

\* TelemetryColumn's render, part_001 lines 852-865: the record shown is the
\* newest one (records never shrink to nothing once one has arrived), d
\* its data, or {} before the first record
PanelRssi ==
    LET d == IF records = <<>> THEN JObj(<<>>) ELSE records[1].data
    IN  getField(d, NAMES_rssi)

\* ChartsColumn's render for the rows App hands it (App.tsx line 168,
\* PanelColumns.tsx line 41): the window, and the voltage chart
ChartWindowOf(chartRows) == windowed(rowsWithTs(chartRows), windowSec)
\* the datasets of one chart, lines 309-334
ChartDataOf(chartRows, candidates, maxN) ==
    buildDatasets(ChartWindowOf(chartRows),
                  pickExistingNumericKeys(ChartWindowOf(chartRows), candidates, maxN))
ChartVoltageOf(chartRows) == ChartDataOf(chartRows, A_voltage, 4)
ChartWindow == ChartWindowOf(rows)
ChartDistance == ChartDataOf(rows, A_distance, 3)
ChartCurrent == ChartDataOf(rows, A_current, 4)
ChartVoltage == ChartVoltageOf(rows)
ChartTemperature == ChartDataOf(rows, A_temperature, 2)

\* the ESP voltage of the record on display, part_001 lines 860-875
PanelVEsp ==
    LET d == IF records = <<>> THEN JObj(<<>>) ELSE records[1].data
    IN  getField(d, NAMES_vEsp)

\* App's latestImageDataUrl, App.tsx lines 80-83: undefined is Null
latestImageDataUrl ==
    LET b64 == extractLastImageFromConsole(consoleLines)
    IN  IF b64.some /\ b64.val # <<>> THEN Some(DataUrl(ImageJpeg, b64.val)) ELSE Null

\* "Pos: (x, y) . Dir: dir" of the grid's header, Grid20x20.tsx lines 190
\* and 213
Display == [pos |-> toDisplayCoords(pose), dir |-> pose.dir]

\* the lines of the panel for the record on display
PanelShown == PanelLines(IF records = <<>> THEN JObj(<<>>) ELSE records[1].data)

(***************************************************************************)
(* Messages.                                                               *)
(***************************************************************************)
Msg(v) == [ok |-> TRUE, lead |-> v.t \in {"obj", "arr"}, v |-> v]
BadText(lead) == [ok |-> FALSE, lead |-> lead, v |-> Undefined]
NoMsg == BadText(FALSE)

SerialIn(ts, text) ==
    Msg(JObj(<<KV(kType, JStr(tSerialIn)), KV(kTs, JNum(ts)), KV(kLine, JStr(text))>>))

IsSerialFrame(data) ==
    /\ data.ok
    /\ ~Falsy(data.v)
    /\ Get(data.v, kType) = JStr(tSerialIn)

Event(kind, data) == [kind |-> kind, data |-> data]

(***************************************************************************)
(* Init: the state after App's first render and its mount effects:         *)
(* useWebSocketFeed's effect has called connect(), TelemetryColumn's       *)
(* useTelemetry has auto-connected, the grid is hidden.                    *)
(***************************************************************************)
Init ==
    /\ status = "connecting"
    /\ socketRef = 1
    /\ sockets = [s \in 1..MaxSockets |-> IF s = 1 THEN "connecting" ELSE "unborn"]
    /\ rows = <<>>
    /\ consoleLines = <<>>
    /\ lastImageDataUrl = Null
    /\ lastMatrixLine = Null
    /\ capture = IdleCapture
    /\ panelStatus = "connecting"
    /\ records = <<>>
    /\ seqRef = 0
    /\ showGrid = FALSE
    /\ grid = createEmptyGrid
    /\ pose = initialPose
    /\ clears = 0
    /\ inFlight = 0
    /\ nframes = 0
    /\ ev = Event("init", NoMsg)
    /\ accepted = <<>>
    /\ sinceStart = [open |-> FALSE, lines |-> <<>>]
    /\ sinceReset = Null
    /\ dropped = FALSE
    /\ prev = Snapshot
    /\ alive = TRUE
    /\ wsRef = 1
    /\ visualSockets = [s \in 1..MaxVisualSockets |->
                            IF s = 1 THEN "connecting" ELSE "unborn"]
    /\ timers = 0
    /\ wsStatus = "connecting"
    /\ isCapturing = FALSE
    /\ lastFrame = Null
    /\ frameMime = ImageJpeg
    /\ imageDataUrl = Null

(***************************************************************************)
(* Actions.                                                                *)
(***************************************************************************)
\* every event records itself and the state it found
Record(kind, data) ==
    /\ ev' = Event(kind, data)
    /\ prev' = Snapshot

\* Grid20x20's effect on [matrixLine]: it runs when the prop has changed
\* (a mounted grid only), Grid20x20.tsx lines 175-178
MatrixEffect(gs, before, after) ==
    IF after # before /\ after.some /\ after.val # <<>>
    THEN applyMatrix(gs, after.val)
    ELSE gs

\* the rows a telemetry frame is accepted with (history only)
AcceptedRows(data) ==
    IF /\ data.ok
       /\ ~Falsy(data.v)
       /\ Get(data.v, kType) = JStr(tTelemetry)
       /\ ~Falsy(Coalesce(Get(data.v, kRow), Get(data.v, kData)))
    THEN <<Coalesce(Get(data.v, kRow), Get(data.v, kData))>>
    ELSE <<>>

\* the image framing after one more frame (history only)
Framing(fr, data) ==
    IF ~IsSerialFrame(data) THEN fr
    ELSE IF SerialText(data.v) = B64_IMAGE_START THEN [open |-> TRUE, lines |-> <<>>]
    ELSE IF SerialText(data.v) = B64_IMAGE_END THEN [fr EXCEPT !.open = FALSE]
    ELSE IF fr.open THEN [fr EXCEPT !.lines = Append(@, SerialText(data.v))]
    ELSE fr

\* ws.onmessage = handleMessage, for a socket the hook created
FeedMessage(s, data, now) ==
    /\ sockets[s] = "open"
    /\ LET fs == handleMessage(Feed, data, now)
           gs == IF showGrid THEN MatrixEffect(GridState, lastMatrixLine, fs.matrix)
                 ELSE GridState
       IN  /\ rows' = fs.rows
           /\ consoleLines' = fs.consoleLines
           /\ capture' = fs.capture
           /\ lastImageDataUrl' = fs.image
           /\ lastMatrixLine' = fs.matrix
           /\ grid' = gs.grid
           /\ pose' = gs.pose
    /\ accepted' = accepted \o AcceptedRows(data)
    /\ sinceStart' = Framing(sinceStart, data)
    /\ sinceReset' = LET set == handleMessage([Feed EXCEPT !.matrix = Null], data, now).matrix
                     IN  IF set.some THEN set ELSE sinceReset
    /\ dropped' = IF IsSerialFrame(data) /\ SerialText(data.v) = B64_IMAGE_START
                  THEN capture.pending /\ capture.chunks # <<>>
                  ELSE dropped
    /\ nframes' = nframes + 1
    /\ Record("feed", data)
    /\ UNCHANGED <<visualVars, connVars, panelVars, showGrid, clears, inFlight>>

\* useTelemetry's ws.onmessage
PanelMessage(data, nowIso) ==
    /\ panelStatus = "open"
    /\ LET ps == telemetryOnMessage(Panel, data, nowIso)
       IN  /\ records' = ps.records
           /\ seqRef' = ps.seqRef
    /\ nframes' = nframes + 1
    /\ Record("panel", data)
    /\ UNCHANGED <<visualVars, feedVars, connVars, panelStatus, gridVars,
                   accepted, sinceStart, dropped, sinceReset>>

\* useTelemetry's ws.onopen, part_001 line 570
PanelOpen ==
    /\ panelStatus = "connecting"
    /\ panelStatus' = "open"
    /\ Record("panelOpen", NoMsg)
    /\ UNCHANGED <<visualVars, feedVars, connVars, records, seqRef, gridVars,
                   nframes, accepted, sinceStart, dropped, sinceReset>>

\* ws.onopen, line 151
OnOpen(s) ==
    /\ sockets[s] = "connecting"
    /\ sockets' = [sockets EXCEPT ![s] = "open"]
    /\ status' = "open"
    /\ Record("open", NoMsg)
    /\ UNCHANGED <<visualVars, socketRef, feedVars, panelVars, gridVars,
                   nframes, accepted, sinceStart, dropped, sinceReset>>

\* ws.onclose, lines 152-155: the connection of socket s has ended (closed
\* by the peer, failed, or closed by close())
OnClose(s) ==
    /\ sockets[s] \in {"connecting", "open", "closing"}
    /\ sockets' = [sockets EXCEPT ![s] = "closed"]
    /\ status' = "closed"
    /\ socketRef' = 0
    /\ Record("close", NoMsg)
    /\ UNCHANGED <<visualVars, feedVars, panelVars, gridVars,
                   nframes, accepted, sinceStart, dropped, sinceReset>>

\* ws.onerror, line 156: the connection fails; its close event follows
OnError(s) ==
    /\ sockets[s] \in {"connecting", "open"}
    /\ sockets' = [sockets EXCEPT ![s] = "closing"]
    /\ status' = "error"
    /\ Record("error", NoMsg)
    /\ UNCHANGED <<visualVars, socketRef, feedVars, panelVars, gridVars,
                   nframes, accepted, sinceStart, dropped, sinceReset>>

\* reconnect(), lines 173-183, with the connect() it calls, lines 138-158:
\* socketRef.current is null when connect() tests it
Reconnect ==
    /\ \E s \in 1..MaxSockets : sockets[s] = "unborn"
    /\ LET ws == MinOf({s \in 1..MaxSockets : sockets[s] = "unborn"})
           closed == IF socketRef # 0 /\ sockets[socketRef] \in {"connecting", "open"}
                     THEN [sockets EXCEPT ![socketRef] = "closing"]
                     ELSE sockets
       IN  /\ sockets' = [closed EXCEPT ![ws] = "connecting"]
           /\ socketRef' = ws
    /\ status' = "connecting"
    /\ Record("reconnect", NoMsg)
    /\ UNCHANGED <<visualVars, feedVars, panelVars, gridVars,
                   nframes, accepted, sinceStart, dropped, sinceReset>>

\* HeaderStatus's onToggleGrid, App.tsx lines 116-156: showing the grid
\* mounts Grid20x20 (fresh state, then its effect on the current
\* lastMatrixLine), hiding it unmounts the component
ToggleGrid ==
    /\ showGrid' = ~showGrid
    /\ LET fresh == [grid |-> createEmptyGrid, pose |-> initialPose]
           gs == IF showGrid THEN fresh ELSE MatrixEffect(fresh, Null, lastMatrixLine)
       IN  /\ grid' = gs.grid
           /\ pose' = gs.pose
    /\ Record("toggle", NoMsg)
    /\ UNCHANGED <<visualVars, feedVars, connVars, panelVars, clears, inFlight,
                   nframes, accepted, sinceStart, dropped, sinceReset>>

\* the Reset button, Grid20x20.tsx lines 181-187, with App's handleGridClear
\* (App.tsx lines 92-102), which posts ".CLEAR" and awaits nothing
ResetClick ==
    /\ showGrid
    /\ LET gs == handleResetClick(GridState)
       IN  /\ grid' = gs.grid
           /\ pose' = gs.pose
    /\ clears' = clears + 1
    /\ inFlight' = inFlight + 1
    /\ nframes' = nframes + 1
    /\ Record("reset", NoMsg)
    /\ sinceReset' = Null
    /\ UNCHANGED <<visualVars, feedVars, connVars, panelVars, showGrid,
                   accepted, sinceStart, dropped>>

\* Grid20x20 rendered by a parent that hands it the line as matrixLine
\* (Props, Grid20x20.tsx line 152): the effect on [matrixLine] of lines
\* 175-178.  lastMatrixLine stands for the prop.
GridProp(line) ==
    /\ showGrid
    /\ LET gs == MatrixEffect(GridState, lastMatrixLine, Some(line))
       IN  /\ grid' = gs.grid
           /\ pose' = gs.pose
    /\ lastMatrixLine' = Some(line)
    /\ nframes' = nframes + 1
    /\ Record("prop", NoMsg)
    /\ UNCHANGED <<visualVars, rows, consoleLines, lastImageDataUrl, capture, connVars, panelVars,
                   showGrid, clears, inFlight, accepted, sinceStart, dropped, sinceReset>>

\* the promise of one ".CLEAR" request settles, App.tsx lines 95-101: its
\* value is dropped, its rejection is caught and logged
ClearSettles(ok) ==
    /\ inFlight > 0
    /\ inFlight' = inFlight - 1
    /\ Record(IF ok THEN "clearDone" ELSE "clearFailed", NoMsg)
    /\ UNCHANGED <<visualVars, feedVars, connVars, panelVars, showGrid, grid, pose, clears,
                   nframes, accepted, sinceStart, dropped, sinceReset>>

(***************************************************************************)
(* Inputs.                                                                 *)
(***************************************************************************)
cAGVs == <<"a", "G", "V", "s">>
cBG8 == <<"b", "G", "8", "=">>
\* a chunk line with white space around it
cPadded == <<" ", "a", "G", "\r">>

RECURSIVE CommaTokens(_)
CommaTokens(tokens) ==
    IF tokens = <<>> THEN <<>>
    ELSE <<",">> \o Head(tokens) \o CommaTokens(Tail(tokens))

\* "RECV_ROVER_<header>,M,<token>,...,<token>"
MatrixLineOf(header, tokens) == RECV_ROVER \o header \o <<",", "M">> \o CommaTokens(tokens)

Zeros == [i \in 1..GRID_COLS |-> "0"]
\* a row token of GRID_COLS digits, all "0" but digit d at 0-based column c
RowWith(c, d) == [Zeros EXCEPT ![c + 1] = d]

\* "RECV_ROVER_x,M,0000000000,0002000000"
G_TwoRows == MatrixLineOf(<<"x">>, <<Zeros, RowWith(3, "2")>>)
\* "RECV_ROVER_-45,-44,M,01,10": rover digits in the header only
G_NoRover == MatrixLineOf(<<"-", "4", "5", ",", "-", "4", "4">>, <<<<"0", "1">>, <<"1", "0">>>>)
\* ten full rows, an obstacle in the top row, no rover
G_Full == MatrixLineOf(<<"x">>, [i \in 1..GRID_ROWS |-> IF i = GRID_ROWS THEN RowWith(1, "1") ELSE Zeros])
\* eleven rows, a rover digit in the eleventh only
G_Excess == MatrixLineOf(<<"x">>, [i \in 1..(GRID_ROWS + 1) |-> IF i = GRID_ROWS + 1 THEN <<"3", "0">> ELSE <<"0", "0">>])
\* "RECV_ROVER_x,M, ": one blank row token
G_Blank == MatrixLineOf(<<"x">>, <<<<" ">>>>)
\* "RECV_ROVER_x,M,05,20": two rover digits
G_TwoRovers == MatrixLineOf(<<"x">>, <<<<"0", "5">>, <<"2", "0">>>>)

\* "RECV_ROVER_x,0002": the prefix without ",M,"
L_NoTag == RECV_ROVER \o <<"x", ",", "0", "0", "0", "2">>
\* "x,M,0002": ",M," without the prefix
L_NoPrefix == <<"x", ",", "M", ",", "0", "0", "0", "2">>

\* "RECV_ROVER_x,M,30,00": heading east in the bottom row
G_East == MatrixLineOf(<<"x">>, <<<<"3", "0">>, <<"0", "0">>>>)
\* "RECV_ROVER_x,M,00,04,00": heading west in the middle row of three
G_West == MatrixLineOf(<<"x">>, <<<<"0", "0">>, <<"0", "4">>, <<"0", "0">>>>)
\* "RECV_ROVER_x,M,005": heading south in the only row
G_South == MatrixLineOf(<<"x">>, <<<<"0", "0", "5">>>>)
\* "RECV_ROVER_x,M, 02,000": a row token that starts with a blank
G_Spaced == MatrixLineOf(<<"x">>, <<<<" ", "0", "2">>, <<"0", "0", "0">>>>)

\* rover digits in several tokens, and two in one token
G_RoversApart == MatrixLineOf(<<"x">>, <<<<"0", "0">>, <<"3", "4">>, <<"5", "0">>>>)
G_RoversInRow == MatrixLineOf(<<"x">>, <<<<"2", "3", "0">>>>)
\* "RECV_ROVER_x,M, 10, ,1x31": a token that starts with a blank, a blank
\* token, a token with a character that is no digit
G_Mixed == MatrixLineOf(<<"x">>, <<<<" ", "1", "0">>, <<" ">>, <<"1", "x", "3", "1">>>>)
\* "RECV_ROVER_x,M,00000000002": a token of GRID_COLS + 1 characters, the
\* rover digit being the last
G_Wide == MatrixLineOf(<<"x">>, <<[i \in 1..(GRID_COLS + 1) |-> IF i = GRID_COLS + 1 THEN "2" ELSE "0"]>>)
DecodeLines ==
    {G_TwoRows, G_East, G_West, G_South, G_Spaced, G_NoRover,
     G_TwoRovers, G_RoversApart, G_RoversInRow, G_Mixed, G_Wide}

SerialLines == {B64_IMAGE_START, B64_IMAGE_END, cAGVs, cBG8, cPadded, G_TwoRows,
                L_NoTag, L_NoPrefix}
GridLines == {G_TwoRows, G_NoRover, G_Full, G_Excess, G_Blank, G_TwoRovers}
ConnLines == {B64_IMAGE_START, B64_IMAGE_END, cAGVs, G_TwoRows}

\* telemetry rows
rTemp == JObj(<<KV(kTemp, JNum(2845))>>)
rVolt == JObj(<<KV(<<"v">>, JNum(5)), KV(kTs, JNum(1700))>>)

fTelemetryRow == Msg(JObj(<<KV(kType, JStr(tTelemetry)), KV(kRow, rTemp)>>))
fTelemetryData == Msg(JObj(<<KV(kType, JStr(tTelemetry)), KV(kData, rVolt)>>))
fSerialChunk == SerialIn(1, cAGVs)
\* {"type": 123}
fTypeNumber == Msg(JObj(<<KV(kType, JNum(123))>>))
\* {"type": 123, "temp": 2845}
fTypeNumberTemp == Msg(JObj(<<KV(kType, JNum(123)), KV(kTemp, JNum(2845))>>))
\* "{bad": text that is not JSON
fBadJson == BadText(TRUE)
\* "hello": text that is not JSON
fBadText == BadText(FALSE)

\* null
fNull == Msg(JNull)
\* {"channel": "telemetry", "data": {"v": 5, "ts": 1700}}: no type at all
fChannel == Msg(JObj(<<KV(kChannel, JStr(tTelemetry)), KV(kData, rVolt)>>))

\* telemetry frames: {"type": "telemetry", ...} with the fields given
Telemetry(fields) == Msg(JObj(<<KV(kType, JStr(tTelemetry))>> \o fields))
fRowNullData == Telemetry(<<KV(kRow, JNull), KV(kData, rVolt)>>)
fRowAndData == Telemetry(<<KV(kRow, rTemp), KV(kData, rVolt)>>)
fNoRow == Telemetry(<<>>)
fRowZero == Telemetry(<<KV(kRow, JNum(0))>>)
fRowEmptyData == Telemetry(<<KV(kRow, JStr(<<>>)), KV(kData, rVolt)>>)

\* serial_in frames: {"type": "serial_in", ...} with the fields given
Serial(fields) == Msg(JObj(<<KV(kType, JStr(tSerialIn))>> \o fields))
fLineOnly == Serial(<<KV(kLine, JStr(cAGVs))>>)
fTsTextLineNumber == Serial(<<KV(kTs, JStr(<<"1", "2">>)), KV(kLine, JNum(42))>>)
fLineNull == Serial(<<KV(kTs, JNum(3)), KV(kLine, JNull)>>)
fNoLine == Serial(<<KV(kTs, JNum(3))>>)
fTsNullLineObject == Serial(<<KV(kTs, JNull), KV(kLine, rTemp)>>)
fTsZeroLineTrue == Serial(<<KV(kTs, JNum(0)), KV(kLine, JBool(TRUE))>>)

CoerceFrames == {fTelemetryRow, fTelemetryData, fRowNullData, fRowAndData, fNoRow,
                 fRowZero, fRowEmptyData,
                 SerialIn(7, cBG8), fLineOnly, fTsTextLineNumber, fLineNull, fNoLine,
                 fTsNullLineObject, fTsZeroLineTrue}

\* telemetry payloads for the alias table NAMES.rssi
\* {"rssi": 1, "Rssi": 2}: two aliases match exactly
rBothExact == JObj(<<KV(<<"r", "s", "s", "i">>, JNum(1)), KV(<<"R", "s", "s", "i">>, JNum(2))>>)
\* {"rSSI": 1, "dbm": 2}: the fifth alias matches exactly, the first by case only
rExactLate == JObj(<<KV(<<"r", "S", "S", "I">>, JNum(1)), KV(<<"d", "b", "m">>, JNum(2))>>)
\* {"DBM": 3, "rSsI": 4}: matches by case only
rCaseOnly == JObj(<<KV(<<"D", "B", "M">>, JNum(3)), KV(<<"r", "S", "s", "I">>, JNum(4))>>)
\* {"R_SSI": 7, "DBM": 8}: the fifth alias matches by case, the first by separators only
rCaseLate == JObj(<<KV(<<"R", "_", "S", "S", "I">>, JNum(7)), KV(<<"D", "B", "M">>, JNum(8))>>)
\* {"D B M": 6, "RSSI-DBM": 5}: matches by separators only
rNormOnly == JObj(<<KV(<<"D", " ", "B", " ", "M">>, JNum(6)), KV(<<"R", "S", "S", "I", "-", "D", "B", "M">>, JNum(5))>>)
\* {"temp": 9}: no alias matches
rNoMatch == JObj(<<KV(<<"t", "e", "m", "p">>, JNum(9))>>)
FieldRecords == {rBothExact, rExactLate, rCaseOnly, rCaseLate, rNormOnly, rNoMatch}
\* {"DBM": 3, "Dbm": 4}: two keys that differ by case only, neither an alias
rCaseTwice == JObj(<<KV(<<"D", "B", "M">>, JNum(3)), KV(<<"D", "b", "m">>, JNum(4))>>)
\* {"d_bm": 5, "d-bm": 6}: two keys that differ by their separator only
rNormTwice == JObj(<<KV(<<"d", "_", "b", "m">>, JNum(5)), KV(<<"d", "-", "b", "m">>, JNum(6))>>)
OrderRecords == {rBothExact, rCaseOnly, rNormOnly, rCaseTwice, rNormTwice}
\* {"type": "telemetry", "data": <payload>}
FieldFrames == {Telemetry(<<KV(kData, r)>>) : r \in FieldRecords}

\* records and rows that hold voltages
kV == <<"v">>
kVEsp == <<"V", " ", "E", "s", "p">>
kV_esp == <<"v", "_", "e", "s", "p">>
\* {"v": 4900, "V Esp": 5000}, and with the keys the other way round
rVThenVEsp == JObj(<<KV(kV, JNum(4900)), KV(kVEsp, JNum(5000))>>)
rVEspThenV == JObj(<<KV(kVEsp, JNum(5000)), KV(kV, JNum(4900))>>)
\* {"v_esp": 5100, "v": 4900, "V Esp": 5000}: a third alias comes first
rThreeVolts == JObj(<<KV(kV_esp, JNum(5100)), KV(kV, JNum(4900)), KV(kVEsp, JNum(5000))>>)
\* {"v_bus": 5000}
rVBus == JObj(<<KV(<<"v", "_", "b", "u", "s">>, JNum(5000))>>)
\* {"vout": 5000}
rVOut == JObj(<<KV(<<"v", "o", "u", "t">>, JNum(5000))>>)
\* {"temp1": 2845}
rTemp1 == JObj(<<KV(<<"t", "e", "m", "p", "1">>, JNum(2845))>>)
\* {"dist1": 120}
rDist1 == JObj(<<KV(<<"d", "i", "s", "t", "1">>, JNum(120))>>)
UnitRecords == {rVThenVEsp, rVEspThenV, rThreeVolts, rVBus, rVOut, rTemp1, rDist1}
\* records whose voltage or temperature is, or is not, a number
kTemp1 == <<"T", "e", "m", "p", " ", "1">>
\* {"V Esp": null}
rVNull == JObj(<<KV(kVEsp, JNull)>>)
\* {"V Esp": 1e999}
rVInfinity == JObj(<<KV(kVEsp, JInfinity)>>)
\* {"V Esp": "n/a", "Temp 1": "--"}
rVNoNumber == JObj(<<KV(kVEsp, JStr(<<"n", "/", "a">>)), KV(kTemp1, JStr(<<"-", "-">>))>>)
\* {"V Esp": true, "Temp 1": {}}
rVTrue == JObj(<<KV(kVEsp, JBool(TRUE)), KV(kTemp1, JObj(<<>>))>>)
\* {"V Esp": "12.3 V", "Temp 1": "2845"}
rVText == JObj(<<KV(kVEsp, JStr(<<"1", "2", ".", "3", " ", "V">>)), KV(kTemp1, JStr(<<"2", "8", "4", "5">>))>>)
\* {"V Esp": " -4.5.6 V", "Temp 1": null}
rVNegative == JObj(<<KV(kVEsp, JStr(<<" ", "-", "4", ".", "5", ".", "6", " ", "V">>)), KV(kTemp1, JNull)>>)
\* {"V Esp": 0, "Temp 1": -5}
rVZero == JObj(<<KV(kVEsp, JNum(0)), KV(kTemp1, JNum(-5))>>)
FormatRecords ==
    {rVNull, rVInfinity, rVNoNumber, rVTrue, rVText, rVNegative, rVZero, rDist1}

\* rows for the charts; T is 1 700 000 000 000 ms, written 170000000
\* {"ts": T}, {"ts": T + 10 s}, {"ts": T + 30 s}, in milliseconds
cAtT == JObj(<<KV(kTs, JNum(170000000))>>)
cAtT10 == JObj(<<KV(kTs, JNum(170000001))>>)
cAtT30 == JObj(<<KV(kTs, JNum(170000003))>>)
\* {"ts": 1700000000}: T in seconds
cSeconds == JObj(<<KV(kTs, JNum(170000))>>)
\* {"ts": 1e12}: the least number that is taken as milliseconds
cThreshold == JObj(<<KV(kTs, JNum(100000000))>>)
\* {"time": "2023-11-14T22:13:20Z"}: T as a date
cIso == JObj(<<KV(kTime, JStr(isoText))>>)
\* {"ts": "soon", "time": T + 20 s, "t": T}: ts is no date
cTsText == JObj(<<KV(kTs, JStr(<<"s", "o", "o", "n">>)), KV(kTime, JNum(170000002)), KV(kT, JNum(170000000))>>)
\* {"ts": 0, "timestamp": T + 10 s}
cTsZero == JObj(<<KV(kTs, JNum(0)), KV(kTimestamp, JNum(170000001))>>)
\* {"timestamp": T + 30 s, "t": T + 10 s, "ts": null}
cTsNull == JObj(<<KV(kTimestamp, JNum(170000003)), KV(kT, JNum(170000001)), KV(kTs, JNull)>>)
\* {"timestamp": T + 20 s}
cTimestamp == JObj(<<KV(kTimestamp, JNum(170000002))>>)
\* {"v": 4900}, {"ts": true}: no timestamp
cNoStamp == JObj(<<KV(kV, JNum(4900))>>)
cTsTrue == JObj(<<KV(kTs, JBool(TRUE))>>)
ChartRows ==
    {cAtT, cAtT10, cAtT30, cSeconds, cThreshold, cIso, cTsText, cTsZero, cTsNull,
     cTimestamp, cNoStamp, cTsTrue}

\* lines for the decoder that the hook would not pass on
\* "x,M" and "M": nothing after the M
P_MLast == <<"x", ",", "M">>
P_MOnly == <<"M">>
\* "xM,02", "x,m,02", "x, M,02": no token is exactly "M"
P_MInToken == <<"x", "M", ",", "0", "2">>
P_LowerM == <<"x", ",", "m", ",", "0", "2">>
P_SpacedM == <<"x", ",", " ", "M", ",", "0", "2">>
PropLines ==
    {L_NoTag, P_MLast, P_MOnly, P_MInToken, P_LowerM, P_SpacedM, <<>>,
     L_NoPrefix, G_East, G_NoRover}

\* the record as a telemetry message for the panel
PanelFrameOf(r) == Telemetry(<<KV(kData, r)>>)
\* the record, stamped ts, as a telemetry row for the charts
ChartRowOf(r, ts) == JObj(<<KV(kTs, JNum(ts))>> \o r.o)
ChartFrameOf(r, ts) == Telemetry(<<KV(kRow, ChartRowOf(r, ts))>>)
\* the stamp of the rows, in seconds: 1 700 000 000 s
UnitStamps == {170000}

\* image frames: {"type": "image", ...} with the fields given
Image(fields) == Msg(JObj(<<KV(kType, JStr(tImage))>> \o fields))
cQQ == <<"Q", "Q">>
uPng == DataPrefix \o ImagePng \o Base64Infix \o <<"Z", "g">>
fImageUrl == Image(<<KV(kDataUrl, JStr(uPng))>>)
fImageB64Mime == Image(<<KV(kB64, JStr(cQQ)), KV(kMime, JStr(ImagePng))>>)
fImageB64 == Image(<<KV(kB64, JStr(cAGVs))>>)
fImageBoth == Image(<<KV(kB64, JStr(cQQ)), KV(kDataUrl, JStr(uPng))>>)
fImageUrlNumber == Image(<<KV(kDataUrl, JNum(5)), KV(kB64, JStr(cQQ)), KV(kMime, JNum(1))>>)
fImageNone == Image(<<KV(kMime, JStr(ImagePng))>>)

ImageFrames == {fImageUrl, fImageB64Mime, fImageB64, fImageBoth, fImageUrlNumber,
                fImageNone,
                SerialIn(1, B64_IMAGE_START), SerialIn(1, cAGVs), SerialIn(1, B64_IMAGE_END)}

Frames == {fTelemetryRow, fTelemetryData, fSerialChunk, fTypeNumber,
           fTypeNumberTemp, fBadJson, fBadText, fNull, fChannel}

\* Date.now() / new Date() at the receipt of a frame
WallClock == {1700000}

(***************************************************************************)
(* Specifications.                                                         *)
(***************************************************************************)
\* both hooks, frames of every kind
Next ==
    \/ \E s \in 1..MaxSockets : OnOpen(s)
    \/ PanelOpen
    \/ /\ nframes < MaxMsgs
       /\ \E s \in 1..MaxSockets, data \in Frames, now \in WallClock :
              FeedMessage(s, data, now)
    \/ /\ nframes < MaxMsgs
       /\ \E data \in Frames, now \in WallClock : PanelMessage(data, now)

Spec == Init /\ [][Next]_vars

\* the serial stream: image capture and matrix detection
NextSerial ==
    \/ \E s \in 1..MaxSockets : OnOpen(s)
    \/ ToggleGrid
    \/ /\ nframes < MaxFrames
       /\ \E s \in 1..MaxSockets, text \in SerialLines, now \in WallClock :
              FeedMessage(s, SerialIn(1, text), now)

SpecSerial == Init /\ [][NextSerial]_vars

\* the grid component under matrix lines, resets and show/hide
NextGrid ==
    \/ \E s \in 1..MaxSockets : OnOpen(s)
    \/ ToggleGrid
    \/ nframes < MaxFrames /\ ResetClick
    \/ /\ nframes < MaxFrames
       /\ \E s \in 1..MaxSockets, text \in GridLines, now \in WallClock :
              FeedMessage(s, SerialIn(1, text), now)

SpecGrid == Init /\ [][NextGrid]_vars

\* connection epochs of the feed hook
NextConn ==
    \/ \E s \in 1..MaxSockets : OnOpen(s)
    \/ \E s \in 1..MaxSockets : OnClose(s)
    \/ \E s \in 1..MaxSockets : OnError(s)
    \/ Reconnect
    \/ ToggleGrid
    \/ /\ nframes < MaxFrames
       /\ \E s \in 1..MaxSockets, text \in ConnLines, now \in WallClock :
              FeedMessage(s, SerialIn(1, text), now)

SpecConn == Init /\ [][NextConn]_vars

\* resets of the grid and the ".CLEAR" requests they send
NextReset ==
    \/ \E s \in 1..MaxSockets : OnOpen(s)
    \/ ToggleGrid
    \/ nframes < MaxFrames /\ ResetClick
    \/ \E ok \in BOOLEAN : ClearSettles(ok)
    \/ /\ nframes < MaxFrames
       /\ \E s \in 1..MaxSockets, text \in {G_TwoRows, G_East}, now \in WallClock :
              FeedMessage(s, SerialIn(1, text), now)

SpecReset == Init /\ [][NextReset]_vars

\* the fields of telemetry and serial_in frames
NextCoerce ==
    \/ \E s \in 1..MaxSockets : OnOpen(s)
    \/ /\ nframes < MaxCoerce
       /\ \E s \in 1..MaxSockets, data \in CoerceFrames, now \in WallClock :
              FeedMessage(s, data, now)

SpecCoerce == Init /\ [][NextCoerce]_vars

\* image frames among the lines of a capture
NextImage ==
    \/ \E s \in 1..MaxSockets : OnOpen(s)
    \/ /\ nframes < MaxFrames
       /\ \E s \in 1..MaxSockets, data \in ImageFrames, now \in WallClock :
              FeedMessage(s, data, now)

SpecImage == Init /\ [][NextImage]_vars

\* the telemetry panel under payloads with aliased keys
NextPanel ==
    \/ PanelOpen
    \/ /\ nframes < MaxCoerce
       /\ \E data \in FieldFrames, now \in WallClock : PanelMessage(data, now)

SpecPanel == Init /\ [][NextPanel]_vars

\* records whose values are to be formatted, to the panel
NextFormat ==
    \/ PanelOpen
    \/ /\ nframes < MaxCoerce
       /\ \E r \in FormatRecords, now \in WallClock : PanelMessage(PanelFrameOf(r), now)

SpecFormat == Init /\ [][NextFormat]_vars

\* serial lines of a capture with telemetry and image frames among them
MixedFrames ==
    {SerialIn(1, B64_IMAGE_START), SerialIn(1, cAGVs), SerialIn(1, B64_IMAGE_END),
     fTelemetryRow, fImageUrl}

NextMixed ==
    \/ \E s \in 1..MaxSockets : OnOpen(s)
    \/ /\ nframes < MaxFrames
       /\ \E s \in 1..MaxSockets, data \in MixedFrames, now \in WallClock :
              FeedMessage(s, data, now)

SpecMixed == Init /\ [][NextMixed]_vars

\* the grid component on its own, under any parent
NextComponent ==
    \/ ToggleGrid
    \/ nframes < MaxDecode /\ ResetClick
    \/ /\ nframes < MaxDecode
       /\ \E line \in PropLines : GridProp(line)

SpecComponent == Init /\ [][NextComponent]_vars

\* rows with and without timestamps, to the charts
NextCharts ==
    \/ \E s \in 1..MaxSockets : OnOpen(s)
    \/ /\ nframes < MaxCoerce
       /\ \E s \in 1..MaxSockets, r \in ChartRows, now \in WallClock :
              FeedMessage(s, Telemetry(<<KV(kRow, r)>>), now)

SpecCharts == Init /\ [][NextCharts]_vars

\* records whose keys collide, to the panel
NextOrder ==
    \/ PanelOpen
    \/ /\ nframes < MaxCoerce
       /\ \E r \in OrderRecords, now \in WallClock : PanelMessage(PanelFrameOf(r), now)

SpecOrder == Init /\ [][NextOrder]_vars

\* records with units, to the panel and to the charts
NextUnits ==
    \/ \E s \in 1..MaxSockets : OnOpen(s)
    \/ PanelOpen
    \/ /\ nframes < MaxCoerce
       /\ \E s \in 1..MaxSockets, r \in UnitRecords, ts \in UnitStamps, now \in WallClock :
              FeedMessage(s, ChartFrameOf(r, ts), now)
    \/ /\ nframes < MaxCoerce
       /\ \E r \in UnitRecords, now \in WallClock : PanelMessage(PanelFrameOf(r), now)

SpecUnits == Init /\ [][NextUnits]_vars

\* the decoder on lines of every heading
NextDecode ==
    \/ \E s \in 1..MaxSockets : OnOpen(s)
    \/ ToggleGrid
    \/ /\ nframes < MaxDecode
       /\ \E s \in 1..MaxSockets, text \in DecodeLines, now \in WallClock :
              FeedMessage(s, SerialIn(1, text), now)

SpecDecode == Init /\ [][NextDecode]_vars

(***************************************************************************)
(* Vocabulary of the properties.                                           *)
(***************************************************************************)
TrimAll(lines) == [i \in 1..Len(lines) |-> Trim(lines[i])]

\* the last n elements of a sequence
LastN(seq, n) == SubSeq(seq, (Len(seq) - n) + 1, Len(seq))

\* the last event was a serial_in frame handled by useWebSocketFeed
SerialEv == ev.kind = "feed" /\ IsSerialFrame(ev.data)
SerialEvText == SerialText(ev.data.v)

\* the last event was B64_IMAGE_END handled while Capturing with chunks
EmittedNow ==
    /\ SerialEv
    /\ SerialEvText = B64_IMAGE_END
    /\ prev.feed.capture.pending
    /\ Len(prev.feed.capture.chunks) >= 1

JpegUrl(base64) == Some(DataPrefix \o ImageJpeg \o Base64Infix \o base64)

(***************************************************************************)
(* C1.  A serial line changes lastImageDataUrl only when it is exactly     *)
(* "B64_IMAGE_END" and is handled while the capture is pending with at     *)
(* least one accumulated chunk; every other serial line, in any state,     *)
(* leaves lastImageDataUrl as it was.                                      *)
(***************************************************************************)
ThmC1 ==
    SerialEv /\ lastImageDataUrl # prev.feed.image
        => /\ SerialEvText = B64_IMAGE_END
           /\ prev.feed.capture.pending
           /\ Len(prev.feed.capture.chunks) >= 1

\* an END has just replaced the retained image
WitC1 ==
    /\ SerialEv
    /\ SerialEvText = B64_IMAGE_END
    /\ lastImageDataUrl # prev.feed.image
    /\ lastImageDataUrl.some

(***************************************************************************)
(* C2.  A "B64_IMAGE_START" received while a capture is pending with       *)
(* accumulated chunks discards them: it leaves the capture pending with no *)
(* chunks and emits nothing, and from then on the chunks held, and any     *)
(* image emitted, consist only of lines received after that START.         *)
(***************************************************************************)
ThmC2 ==
    /\ SerialEv /\ SerialEvText = B64_IMAGE_START
           => /\ capture = [pending |-> TRUE, chunks |-> <<>>]
              /\ lastImageDataUrl = prev.feed.image
    /\ dropped /\ capture.pending
           => capture.chunks = TrimAll(sinceStart.lines)
    /\ dropped /\ EmittedNow
           => lastImageDataUrl = JpegUrl(Join(TrimAll(sinceStart.lines)))

\* an image has been completed after a START discarded a partial capture
WitC2 ==
    /\ dropped
    /\ EmittedNow
    /\ lastImageDataUrl.some

(***************************************************************************)
(* C3.  The image emitted on "B64_IMAGE_END" has as payload the            *)
(* concatenation, in receipt order, of the trimmed texts of exactly the    *)
(* serial lines received since the most recent "B64_IMAGE_START".          *)
(***************************************************************************)
ThmC3 ==
    EmittedNow => lastImageDataUrl = JpegUrl(Join(TrimAll(sinceStart.lines)))

\* START, "aGVs", "bG8=", END has emitted the payload "aGVsbG8="
WitC3 ==
    /\ EmittedNow
    /\ sinceStart.lines = <<cAGVs, cBG8>>
    /\ lastImageDataUrl = JpegUrl(<<"a", "G", "V", "s", "b", "G", "8", "=">>)

(***************************************************************************)
(* C4.  While a capture is pending, a serial line other than the two       *)
(* markers is appended (trimmed) as a chunk and is not evaluated as a      *)
(* matrix line: lastMatrixLine, grid and pose are unchanged by it, even    *)
(* when it starts with "RECV_ROVER_" and contains ",M,".                   *)
(***************************************************************************)
ThmC4 ==
    (/\ SerialEv
     /\ prev.feed.capture.pending
     /\ SerialEvText \notin {B64_IMAGE_START, B64_IMAGE_END})
        => /\ capture.pending
           /\ capture.chunks = Append(prev.feed.capture.chunks, Trim(SerialEvText))
           /\ lastMatrixLine = prev.feed.matrix
           /\ GridState = prev.gridc

\* a matrix line has arrived during a capture, with the grid on display
WitC4 ==
    /\ SerialEv
    /\ prev.feed.capture.pending
    /\ SerialEvText = G_TwoRows
    /\ showGrid
    /\ capture.chunks # <<>>

\* the characters of a matrix line after its first "M" token
AfterM(line) ==
    LET ms == {i \in 1..Len(line) :
                  /\ line[i] = "M"
                  /\ i = 1 \/ line[i - 1] = ","
                  /\ i = Len(line) \/ line[i + 1] = ","}
    IN  IF ms = {} THEN <<>> ELSE SubSeq(line, MinOf(ms) + 1, Len(line))

RoverDigits == {"2", "3", "4", "5"}

NoRoverDigit(line) == \A i \in 1..Len(AfterM(line)) : AfterM(line)[i] \notin RoverDigits

\* the last event was a matrix line that the displayed grid has applied
AppliedNow ==
    /\ SerialEv
    /\ prev.showGrid
    /\ lastMatrixLine = Some(SerialEvText)
    /\ lastMatrixLine # prev.feed.matrix

(***************************************************************************)
(* C5.  In every reachable state of the grid component the grid has        *)
(* exactly 10 rows and every row has exactly 10 cells.                     *)
(***************************************************************************)
CexC5 ==
    /\ Len(grid) = GRID_ROWS
    /\ \A r \in 1..Len(grid) : Len(grid[r]) = GRID_COLS

(***************************************************************************)
(* C6.  Applying a matrix line whose rows hold no rover digit (2, 3, 4, 5) *)
(* replaces the grid and leaves the pose held before exactly as it was.    *)
(***************************************************************************)
ThmC6 ==
    AppliedNow /\ NoRoverDigit(SerialEvText)
        => /\ pose = prev.gridc.pose
           /\ grid = parseMatrixLine(SerialEvText).grid

\* such a line has replaced the grid while the pose held was not the default
WitC6 ==
    /\ AppliedNow
    /\ NoRoverDigit(SerialEvText)
    /\ prev.gridc.pose # initialPose
    /\ pose = prev.gridc.pose
    /\ grid # prev.gridc.grid

(***************************************************************************)
(* C7.  After any sequence of frames no buffer exceeds its cap: rows has   *)
(* at most maxRows entries, consoleLines at most the console cap, and the  *)
(* telemetry panel's records at most maxBuffer.                            *)
(***************************************************************************)
ThmC7 ==
    /\ Len(rows) <= maxRows
    /\ Len(consoleLines) <= ConsoleCap
    /\ Len(records) <= maxBuffer

\* rows and records are both full after more frames than they hold
WitC7 ==
    /\ Len(accepted) > maxRows
    /\ Len(rows) = maxRows
    /\ seqRef > maxBuffer
    /\ Len(records) = maxBuffer

(***************************************************************************)
(* C8.  After n accepted telemetry frames, rows is exactly the last        *)
(* min(n, maxRows) accepted rows in arrival order.                         *)
(***************************************************************************)
ThmC8 ==
    rows = LastN(accepted, IF Len(accepted) < maxRows THEN Len(accepted) ELSE maxRows)

\* maxRows + 1 rows were accepted: the oldest is gone, the others remain
WitC8 ==
    /\ Len(accepted) = maxRows + 1
    /\ accepted[1] # accepted[2]
    /\ rows = Tail(accepted)

\* the message is not JSON, or its JSON carries no string `type`
Malformed(data) == ~data.ok \/ Get(data.v, kType).t # "str"

HasHintKey(o) ==
    \E i \in 1..Len(o.o) : \E h \in TelemetryHints : Includes(ToLower(o.o[i].k), h)

\* what lets the panel take a message that carries no string `type`: no
\* `type` at all and a `channel` (or, failing that, a `kind`) naming
\* telemetry, beside an object found as `data`, `payload` or `telemetry`
\* in that order; an object `telemetry`; a `data` object with
\* telemetry-like keys; telemetry-like keys in the message itself
PanelRecognises(v) ==
    LET tag == Coalesce(Get(v, kType), Coalesce(Get(v, kChannel), Get(v, kKind)))
        inner == Coalesce(Get(v, kData), Coalesce(Get(v, kPayload), Get(v, kTelemetry)))
    IN  /\ v.t = "obj"
        /\ \/ /\ tag.t = "str"
              /\ Includes(ToLower(tag.s), kTelemetry)
              /\ inner.t = "obj"
           \/ Get(v, kTelemetry).t = "obj"
           \/ Get(v, kData).t = "obj" /\ HasHintKey(Get(v, kData))
           \/ HasHintKey(v)

MessageEv == ev.kind \in {"feed", "panel"}

CexC10 ==
    ev.kind = "reconnect"
        => /\ capture = IdleCapture
           /\ grid = createEmptyGrid
           /\ pose = initialPose

\* the two tests of the matrix detection
IsMatrixLine(text) == StartsWith(text, RECV_ROVER) /\ Includes(text, MatrixTag)

(***************************************************************************)
(* C11.  A serial line that does not start with "RECV_ROVER_" or does not  *)
(* contain ",M," never updates lastMatrixLine and leaves grid and pose     *)
(* unchanged; a line that passes both tests and is received while no       *)
(* capture is pending becomes lastMatrixLine.                              *)
(***************************************************************************)
ThmC11 ==
    SerialEv
        => /\ ~IsMatrixLine(SerialEvText)
                 => /\ lastMatrixLine = prev.feed.matrix
                    /\ GridState = prev.gridc
           /\ IsMatrixLine(SerialEvText) /\ ~prev.feed.capture.pending
                 => lastMatrixLine = Some(SerialEvText)

\* a line with ",M," and rows but without the prefix has arrived, idle, with
\* the grid on display showing an earlier matrix line
WitC11 ==
    /\ SerialEv
    /\ SerialEvText = L_NoPrefix
    /\ ~prev.feed.capture.pending
    /\ showGrid
    /\ lastMatrixLine = Some(G_TwoRows)
    /\ grid = parseMatrixLine(G_TwoRows).grid

\* the row tokens of a matrix line: what the commas separate after its
\* first "M" token
RowTokensOf(line) == Tail(Split(AfterM(line)))

EmptyRow == [c \in 1..GRID_COLS |-> Cell(FALSE)]

(***************************************************************************)
(* C12.  A matrix line with N row tokens gives a grid of 10 rows: display  *)
(* row v (0 = top) of the first min(N, 10) is built from token             *)
(* min(N, 10) - 1 - v, the other 10 - min(N, 10) rows are empty padding,   *)
(* and tokens beyond the tenth are not used.                               *)
(***************************************************************************)
CexC12 ==
    AppliedNow
        => LET tokens == RowTokensOf(SerialEvText)
               numRows == IF Len(tokens) < GRID_ROWS THEN Len(tokens) ELSE GRID_ROWS
           IN  /\ Len(grid) = GRID_ROWS
               /\ \A v \in 0..(numRows - 1) :
                      grid[v + 1] = RowCells(tokens[(numRows - 1 - v) + 1])
               /\ \A v \in numRows..(GRID_ROWS - 1) : grid[v + 1] = EmptyRow

\* the places <<t, c>> of the rover digits in row tokens: token t, 0-based
\* character c
RoverPlaces(tokens) ==
    {p \in (0..(Len(tokens) - 1)) \X (0..GRID_COLS) :
        /\ p[2] < Len(tokens[p[1] + 1])
        /\ tokens[p[1] + 1][p[2] + 1] \in RoverDigits}

DirectionOfDigit(d) ==
    CASE d = "2" -> "N" [] d = "3" -> "E" [] d = "4" -> "W" [] d = "5" -> "S"

\* the pose the claim gives for N row tokens holding one rover digit
PoseOfPlace(tokens, p) ==
    [row |-> Len(tokens) - 1 - p[1], col |-> p[2],
     dir |-> DirectionOfDigit(tokens[p[1] + 1][p[2] + 1])]

(***************************************************************************)
(* C13.  A matrix line with N <= 10 row tokens and exactly one rover digit *)
(* d, at character index c of token t, gives the pose row = N - 1 - t,     *)
(* col = c, direction 2 -> N, 3 -> E, 4 -> W, 5 -> S.  As stated this      *)
(* fails for a token that starts with white space: the decoder counts c in *)
(* the trimmed token.                                                      *)
(***************************************************************************)
CexC13 ==
    LET tokens == RowTokensOf(SerialEvText)
    IN  (/\ AppliedNow
         /\ Len(tokens) <= GRID_ROWS
         /\ Cardinality(RoverPlaces(tokens)) = 1)
            => pose = PoseOfPlace(tokens, CHOOSE p \in RoverPlaces(tokens) : TRUE)

(***************************************************************************)
(* C13, amended.  The same with c counted in token t after the white space *)
(* around it is removed; "RECV_ROVER_x,M,0000000000,0002000000" gives      *)
(* row 0, col 3, direction N.                                              *)
(***************************************************************************)
ThmC13 ==
    LET tokens == TrimAll(RowTokensOf(SerialEvText))
    IN  /\ (/\ AppliedNow
             /\ Len(tokens) <= GRID_ROWS
             /\ Cardinality(RoverPlaces(tokens)) = 1)
                => pose = PoseOfPlace(tokens, CHOOSE p \in RoverPlaces(tokens) : TRUE)
        /\ AppliedNow /\ SerialEvText = G_TwoRows
                => pose = [row |-> 0, col |-> 3, dir |-> "N"]

\* the line of three rows with a 4 in the middle one has moved the rover
\* from another place and heading
WitC13 ==
    /\ AppliedNow
    /\ SerialEvText = G_West
    /\ prev.gridc.pose \notin {initialPose, pose}
    /\ pose = [row |-> 1, col |-> 1, dir |-> "W"]

(***************************************************************************)
(* C14.  Decoding a matrix line twice is idempotent: once the component    *)
(* has applied a line, applying the same line again leaves grid and pose   *)
(* as the first application left them, and a second delivery of the line   *)
(* that is already lastMatrixLine changes neither.                         *)
(***************************************************************************)
ThmC14 ==
    /\ AppliedNow => applyMatrix(GridState, SerialEvText) = GridState
    /\ (/\ SerialEv
         /\ IsMatrixLine(SerialEvText)
         /\ prev.feed.matrix = Some(SerialEvText))
            => GridState = prev.gridc

\* the line on display, which moved the rover, has been delivered again
WitC14 ==
    /\ SerialEv
    /\ prev.showGrid
    /\ prev.feed.matrix = Some(SerialEvText)
    /\ SerialEvText = G_TwoRows
    /\ grid = parseMatrixLine(G_TwoRows).grid
    /\ pose = [row |-> 0, col |-> 3, dir |-> "N"]

(***************************************************************************)
(* C15.  An explicit reset sets the grid to ten rows of ten empty cells    *)
(* and the pose to row 9, col 0, direction N, and sends the ".CLEAR"       *)
(* notification exactly once; the reset is complete while the request is   *)
(* still outstanding, and the request's outcome, failure included, changes *)
(* neither grid nor pose and sends nothing again.                          *)
(***************************************************************************)
ThmC15 ==
    /\ ev.kind = "reset"
           => /\ Len(grid) = 10
              /\ \A r \in 1..Len(grid) :
                     /\ Len(grid[r]) = 10
                     /\ \A c \in 1..Len(grid[r]) :
                            grid[r][c] = [visited |-> FALSE, obstacle |-> FALSE]
              /\ pose = [row |-> 9, col |-> 0, dir |-> "N"]
              /\ clears = prev.clears + 1
              /\ inFlight >= 1
    /\ ev.kind # "reset" => clears = prev.clears
    /\ ev.kind \in {"clearDone", "clearFailed"} => GridState = prev.gridc

\* a matrix line was applied, the grid was reset, and the request failed
WitC15 ==
    /\ ev.kind = "clearFailed"
    /\ showGrid
    /\ lastMatrixLine = Some(G_TwoRows)
    /\ clears = 1
    /\ grid = createEmptyGrid
    /\ pose = initialPose

(***************************************************************************)
(* C16.  Every serial_in frame appends exactly one entry to consoleLines,  *)
(* whatever the capture state and whatever the line (marker, chunk, matrix *)
(* line), and nothing else touches consoleLines: after n serial lines it   *)
(* holds min(n, cap) entries, each frame leaves the entries held before    *)
(* in their order, followed by its own, cut to the newest cap entries.     *)
(* In this specification every frame counted is a serial_in frame.         *)
(***************************************************************************)
ThmC16 ==
    /\ Len(consoleLines) = (IF nframes < ConsoleCap THEN nframes ELSE ConsoleCap)
    /\ SerialEv
           => LET entry == [ts |-> Get(ev.data.v, kTs).n * 1000, text |-> SerialEvText]
                  all == Append(prev.feed.consoleLines, entry)
              IN  consoleLines =
                      LastN(all, IF Len(all) < ConsoleCap THEN Len(all) ELSE ConsoleCap)
    /\ ~SerialEv => consoleLines = prev.feed.consoleLines

\* a chunk line received during a capture has pushed the oldest entry out
\* of a full console
WitC16 ==
    /\ SerialEv
    /\ prev.feed.capture.pending
    /\ SerialEvText = cAGVs
    /\ Len(prev.feed.consoleLines) = ConsoleCap
    /\ consoleLines[ConsoleCap].text = cAGVs
    /\ consoleLines[1] = prev.feed.consoleLines[2]
    /\ consoleLines[1].text = B64_IMAGE_START
    /\ prev.feed.consoleLines[1].text = G_TwoRows

\* the last event was a telemetry frame handled by useWebSocketFeed
TelemetryEv ==
    /\ ev.kind = "feed"
    /\ ev.data.ok
    /\ Get(ev.data.v, kType) = JStr(tTelemetry)

Absent(v) == v.t \in {"undef", "null"}

\* `row`, or `data` when `row` is absent or null
ChosenRow ==
    IF Absent(Get(ev.data.v, kRow)) THEN Get(ev.data.v, kData) ELSE Get(ev.data.v, kRow)

\* rows with one more row appended, cut to the newest maxRows
RowsWith(row) ==
    LET all == Append(prev.feed.rows, row)
    IN  LastN(all, IF Len(all) < maxRows THEN Len(all) ELSE maxRows)

(***************************************************************************)
(* C17.  A telemetry frame contributes the value of its `row` field, or of *)
(* `data` when `row` is absent or null, as one appended row; when neither  *)
(* is present the frame is dropped with no state change.  As stated this   *)
(* fails for a value that is present and falsy: {"type": "telemetry",      *)
(* "row": 0} is dropped.                                                   *)
(***************************************************************************)
CexC17 ==
    TelemetryEv
        => IF Absent(ChosenRow) THEN Feed = prev.feed
           ELSE Feed = [prev.feed EXCEPT !.rows = RowsWith(ChosenRow)]

\* 0, "" and false
FalsyValue(v) ==
    \/ v = JNum(0)
    \/ v = JStr(<<>>)
    \/ v = JBool(FALSE)

(***************************************************************************)
(* C17, amended.  The frame contributes that value as one appended row     *)
(* unless the value is 0, "" or false; when the value is one of these, or  *)
(* neither field is present, the frame is dropped with no state change.    *)
(***************************************************************************)
ThmC17 ==
    TelemetryEv
        => IF Absent(ChosenRow) \/ FalsyValue(ChosenRow) THEN Feed = prev.feed
           ELSE Feed = [prev.feed EXCEPT !.rows = RowsWith(ChosenRow)]

\* a frame with a null `row` has contributed its `data` to a full buffer
WitC17 ==
    /\ TelemetryEv
    /\ ev.data = fRowNullData
    /\ Len(prev.feed.rows) = maxRows
    /\ prev.feed.rows[maxRows] = rTemp
    /\ rows[maxRows] = rVolt

(***************************************************************************)
(* C18.  The console entry of a serial_in frame has as timestamp ts * 1000 *)
(* when `ts` is a number and the wall-clock time of receipt otherwise, and *)
(* as text `line` itself when it is a string, its string form when it is   *)
(* neither a string nor null nor absent (42 gives "42", true gives "true", *)
(* an object "[object Object]"), and the empty string otherwise.           *)
(***************************************************************************)
ThmC18 ==
    SerialEv
        => LET ts == Get(ev.data.v, kTs)
               line == Get(ev.data.v, kLine)
               entry == consoleLines[Len(consoleLines)]
           IN  /\ ts.t = "num" => entry.ts = ts.n * 1000
               /\ ts.t # "num" => entry.ts \in WallClock
               /\ line.t = "str" => entry.text = line.s
               /\ Absent(line) => entry.text = <<>>
               /\ line = JNum(42) => entry.text = <<"4", "2">>
               /\ line = JBool(TRUE) => entry.text = <<"t", "r", "u", "e">>
               /\ line.t = "obj" => entry.text = StringOf(JObj(<<>>))

\* a frame with a textual ts and the line 42 was stamped by the clock; the
\* next one, with ts 0 and the line true, by its own ts
WitC18 ==
    /\ SerialEv
    /\ ev.data = fTsZeroLineTrue
    /\ Len(consoleLines) = 2
    /\ consoleLines[1] = [ts |-> 1700000, text |-> <<"4", "2">>]
    /\ consoleLines[2] = [ts |-> 0, text |-> <<"t", "r", "u", "e">>]

\* the last event was an image frame handled by useWebSocketFeed
ImageEv ==
    /\ ev.kind = "feed"
    /\ ev.data.ok
    /\ Get(ev.data.v, kType) = JStr(tImage)

(***************************************************************************)
(* C19.  An image frame with a string data_url, or else with a string b64  *)
(* (mime defaulting to image/jpeg), replaces the one retained image and    *)
(* leaves the capture state, which it does not read, as it was; the image  *)
(* retained is always the one completed last, by an image frame or by      *)
(* "B64_IMAGE_END": no other event changes it.                             *)
(***************************************************************************)
ThmC19 ==
    LET url == Get(ev.data.v, kDataUrl)
        b64 == Get(ev.data.v, kB64)
        mime == Get(ev.data.v, kMime)
    IN  /\ ImageEv
               => /\ Feed = [prev.feed EXCEPT !.image = lastImageDataUrl]
                  /\ url.t = "str" => lastImageDataUrl = Some(url.s)
                  /\ url.t # "str" /\ b64.t = "str" /\ mime.t = "str"
                         => lastImageDataUrl =
                                Some(DataPrefix \o mime.s \o Base64Infix \o b64.s)
                  /\ url.t # "str" /\ b64.t = "str" /\ mime.t # "str"
                         => lastImageDataUrl = JpegUrl(b64.s)
                  /\ url.t # "str" /\ b64.t # "str"
                         => lastImageDataUrl = prev.feed.image
        /\ EmittedNow => lastImageDataUrl = JpegUrl(Join(prev.feed.capture.chunks))
        /\ ~ImageEv /\ ~EmittedNow => lastImageDataUrl = prev.feed.image

\* an image frame has replaced the retained image in the middle of a
\* capture, whose chunks are still held
WitC19 ==
    /\ ImageEv
    /\ ev.data = fImageB64Mime
    /\ prev.feed.image = Some(uPng)
    /\ lastImageDataUrl = Some(DataPrefix \o ImagePng \o Base64Infix \o cQQ)
    /\ capture = [pending |-> TRUE, chunks |-> <<cAGVs>>]

\* the three ways an alias matches a key of the record
ExactMatch(alias, key) == key = alias
CaseMatch(alias, key) == ToLower(key) = ToLower(alias)
SeparatorMatch(alias, key) ==
    LET strip(s) == SelectSeq(s, LAMBDA c : c \notin {" ", "_", "-"})
    IN  strip(ToLower(key)) = strip(ToLower(alias))

\* the record on display and the places of the aliases that match one of
\* its keys in each pass
Shown == records[1].data
ExactAliases ==
    {i \in 1..Len(NAMES_rssi) :
        \E j \in 1..Len(Shown.o) : ExactMatch(NAMES_rssi[i], Shown.o[j].k)}
CaseAliases ==
    {i \in 1..Len(NAMES_rssi) :
        \E j \in 1..Len(Shown.o) : CaseMatch(NAMES_rssi[i], Shown.o[j].k)}
SeparatorAliases ==
    {i \in 1..Len(NAMES_rssi) :
        \E j \in 1..Len(Shown.o) : SeparatorMatch(NAMES_rssi[i], Shown.o[j].k)}

(***************************************************************************)
(* C20.  Field resolution runs three passes in order: exact key, key       *)
(* without regard to case, key lowered and stripped of white space, "_"    *)
(* and "-".  The value resolved is that of a key matching, in the first    *)
(* pass in which any alias matches, the first alias of the table that      *)
(* matches in that pass; when no alias matches in any pass it is absent.   *)
(***************************************************************************)
ThmC20 ==
    records # <<>>
        => /\ ExactAliases # {}
                 => \E j \in 1..Len(Shown.o) :
                        /\ ExactMatch(NAMES_rssi[MinOf(ExactAliases)], Shown.o[j].k)
                        /\ PanelRssi = Shown.o[j].v
           /\ ExactAliases = {} /\ CaseAliases # {}
                 => \E j \in 1..Len(Shown.o) :
                        /\ CaseMatch(NAMES_rssi[MinOf(CaseAliases)], Shown.o[j].k)
                        /\ PanelRssi = Shown.o[j].v
           /\ ExactAliases = {} /\ CaseAliases = {} /\ SeparatorAliases # {}
                 => \E j \in 1..Len(Shown.o) :
                        /\ SeparatorMatch(NAMES_rssi[MinOf(SeparatorAliases)], Shown.o[j].k)
                        /\ PanelRssi = Shown.o[j].v
           /\ ExactAliases = {} /\ CaseAliases = {} /\ SeparatorAliases = {}
                 => PanelRssi = Undefined
           /\ Shown = rBothExact => PanelRssi = JNum(2)
           /\ Shown = rExactLate => PanelRssi = JNum(2)
           /\ Shown = rCaseOnly => PanelRssi = JNum(4)
           /\ Shown = rCaseLate => PanelRssi = JNum(8)
           /\ Shown = rNormOnly => PanelRssi = JNum(5)
           /\ Shown = rNoMatch => PanelRssi = Undefined

\* the record on display has a key that the first alias matches by case
\* and one that the fifth alias matches exactly: the exact one is resolved
WitC20 ==
    /\ records # <<>>
    /\ Shown = rExactLate
    /\ CaseMatch(NAMES_rssi[1], Shown.o[1].k)
    /\ ExactAliases = {5}
    /\ PanelRssi = JNum(2)

\* the objects that hold the entries of object d in any order
Reorderings(d) ==
    {JObj([i \in 1..Len(d.o) |-> d.o[f[i]]]) : f \in Permutations(1..Len(d.o))}

\* the buffers that differ from rows in the order of the keys of one row
RowReorderings ==
    UNION {{[rows EXCEPT ![j] = d] : d \in Reorderings(rows[j])} : j \in 1..Len(rows)}

HasKey(d, key) == \E j \in 1..Len(d.o) : d.o[j].k = key

(***************************************************************************)
(* C21.  For a record that holds both "v" and "V Esp" the voltage resolves *)
(* to the value of the alias that comes first in the alias table of the    *)
(* path: "V Esp" in the panel (NAMES.vEsp does not list "v"), "v" in the   *)
(* charts (the voltage aliases do not list "V Esp"), and the result is the *)
(* same for every order of the record's keys.                              *)
(***************************************************************************)
ThmC21 ==
    /\ records # <<>> /\ HasKey(Shown, kV) /\ HasKey(Shown, kVEsp)
           => /\ PanelVEsp = Get(Shown, kVEsp)
              /\ \A d \in Reorderings(Shown) : getField(d, NAMES_vEsp) = PanelVEsp
    /\ \A j \in 1..Len(ChartWindow) :
           HasKey(ChartWindow[j].row, kV) /\ HasKey(ChartWindow[j].row, kVEsp)
               => /\ ChartVoltage[1].label = kV
                  /\ ChartVoltage[1].data[j] =
                         [some |-> TRUE,
                          value |-> Ratio(Get(ChartWindow[j].row, kV).n, 1000)]
                  /\ \A rs \in RowReorderings : ChartVoltageOf(rs) = ChartVoltage

\* the panel shows, and the charts plot, the record whose first key is a
\* third alias, "v_esp"
WitC21 ==
    /\ records # <<>>
    /\ Shown = rThreeVolts
    /\ PanelVEsp = JNum(5000)
    /\ Len(rows) = 2
    /\ rows[2] = ChartRowOf(rThreeVolts, 170000)
    /\ Len(ChartVoltage) = 2
    /\ ChartVoltage[1].label = kV
    /\ ChartVoltage[2].label = kV_esp

\* every value of the datasets is the raw number over den
AllOver(datasets, den) ==
    \A i \in 1..Len(datasets) : \A j \in 1..Len(datasets[i].data) :
        datasets[i].data[j].some => datasets[i].data[j].value.den = den

\* the text of the number that aliases names resolve in the record shown,
\* over den, with the unit
TextOver(names, den, unit) ==
    LET n == toNumberOrUndefined(getField(Shown, names)).value
    IN  WithUnit(ToFixed2(Ratio(n.num, n.den * den)), unit)

(***************************************************************************)
(* C22.  Normalisation depends on the category alone: temperatures and     *)
(* humidities are divided by 100, voltages, currents and powers by 1000,   *)
(* everything else is passed through, for every alias of a category, in    *)
(* the datasets of the charts and in the lines of the panel.               *)
(***************************************************************************)
CexC22 ==
    /\ AllOver(ChartTemperature, 100)
    /\ AllOver(ChartVoltage, 1000)
    /\ AllOver(ChartCurrent, 1000)
    /\ AllOver(ChartDistance, 1)
    /\ records # <<>> =>
          /\ getField(Shown, NAMES_temp1).t = "num"
                => PanelShown.temp1 = TextOver(NAMES_temp1, 100, <<Degree, "C">>)
          /\ getField(Shown, NAMES_vEsp).t = "num"
                => PanelShown.vEsp = TextOver(NAMES_vEsp, 1000, <<"m", "V">>)
          /\ getField(Shown, NAMES_dist1).t = "num"
                => PanelShown.dist1 = TextOver(NAMES_dist1, 1, <<>>)

\* the same without the two cases that fail: the chart's alias "vout" and
\* the panel's voltage line
UnitsElsewhere ==
    /\ AllOver(ChartTemperature, 100)
    /\ \A i \in 1..Len(ChartVoltage) :
          ChartVoltage[i].label # <<"v", "o", "u", "t">>
              => AllOver(<<ChartVoltage[i]>>, 1000)
    /\ AllOver(ChartDistance, 1)
    /\ records # <<>> =>
          /\ getField(Shown, NAMES_temp1).t = "num"
                => PanelShown.temp1 = TextOver(NAMES_temp1, 100, <<Degree, "C">>)
          /\ getField(Shown, NAMES_vEsp).t = "num"
                => PanelShown.vEsp = TextOver(NAMES_vEsp, 1, <<"m", "V">>)
          /\ getField(Shown, NAMES_dist1).t = "num"
                => PanelShown.dist1 = TextOver(NAMES_dist1, 1, <<>>)

HasDigit(s) == \E i \in 1..Len(s) : s[i] \in {"0", "1", "2", "3", "4", "5", "6", "7", "8", "9"}

\* v is absent, null, a number that is not finite, or a text without a number
NotANumber(v) == v.t \in {"undef", "null", "inf"} \/ (v.t = "str" /\ ~HasDigit(v.s))

\* n.nn, or -n.nn, and then the unit
IsAmount(text, unit) ==
    \E k \in 4..Len(text) :
        /\ text[k - 2] = "."
        /\ \A i \in (1..k) \ {k - 2} : IsDigit(text[i]) \/ (i = 1 /\ text[i] = "-")
        /\ SubSeq(text, k + 1, Len(text)) = <<" ">> \o unit

(***************************************************************************)
(* C23.  A value that is absent (the record has no alias of the field),    *)
(* null, a number that is not finite, or a text that holds no number, is   *)
(* rendered as the sentinel, an en dash, by fmt and by fmtScaled100; a     *)
(* finite number and a text that holds one are rendered as an amount with  *)
(* two decimals and the unit.  Every line of the panel is a text in every  *)
(* state: nothing is raised.                                               *)
(***************************************************************************)
ThmC23 ==
    records # <<>> =>
        LET v == getField(Shown, NAMES_vEsp)
            t == getField(Shown, NAMES_temp1)
        IN  /\ NotANumber(v) => PanelShown.vEsp = <<EnDash>>
            /\ NotANumber(t) => PanelShown.temp1 = <<EnDash>>
            /\ v.t = "num" \/ (v.t = "str" /\ HasDigit(v.s))
                   => IsAmount(PanelShown.vEsp, <<"m", "V">>)
            /\ t.t = "num" \/ (t.t = "str" /\ HasDigit(t.s))
                   => IsAmount(PanelShown.temp1, <<Degree, "C">>)
            /\ \A line \in {PanelShown.vEsp, PanelShown.temp1, PanelShown.dist1} :
                   line \in Seq(STRING) /\ line # <<>>

\* "12.3 V" was shown as 12.30 mV; then 1e999 and, with no alias of the
\* temperature in the record, both lines show the sentinel
WitC23 ==
    /\ Len(records) >= 2
    /\ records[2].data = rVText
    /\ PanelLines(rVText).vEsp = <<"1", "2", ".", "3", "0", " ", "m", "V">>
    /\ PanelLines(rVText).temp1 = <<"2", "8", ".", "4", "5", " ", Degree, "C">>
    /\ PanelLines(rVNegative).vEsp = <<"-", "4", ".", "5", "0", " ", "m", "V">>
    /\ Shown = rVInfinity
    /\ getField(Shown, NAMES_temp1) = Undefined
    /\ PanelShown.vEsp = <<EnDash>>
    /\ PanelShown.temp1 = <<EnDash>>

\* window lengths in seconds, and W * 1000 ms in the unit of the timestamps
WindowLengths == {0, 10, 20}
MillisOf(W) == (W * 1000) \div 10000

\* the indices of the rows of the buffer that have a timestamp
Stamped == {i \in 1..Len(rows) : rowTsMs(rows[i]).some}
StampAt(i) == rowTsMs(rows[i]).ms
MaxStamp == MaxOf({StampAt(i) : i \in Stamped})

\* view holds exactly the rows of the buffer at the indices in expected
HoldsExactly(view, expected) ==
    /\ Len(view) = Cardinality(expected)
    /\ \E f \in [1..Len(view) -> expected] :
          /\ \A j, k \in 1..Len(view) : f[j] = f[k] => j = k
          /\ \A j \in 1..Len(view) :
                 view[j].row = rows[f[j]] /\ view[j].ts_ms = StampAt(f[j])

(***************************************************************************)
(* C24.  For every window length W, the window view of the buffer holds    *)
(* exactly the rows with a timestamp t >= max - W * 1000, max being the    *)
(* largest timestamp of the buffer, in ascending order of timestamp; it    *)
(* holds the row of max, and is empty only when no row has a timestamp.    *)
(***************************************************************************)
ThmC24 ==
    \A W \in WindowLengths :
        LET view == windowed(rowsWithTs(rows), W)
        IN  /\ Stamped = {} => view = <<>>
            /\ Stamped # {} =>
                  /\ HoldsExactly(view, {i \in Stamped : StampAt(i) >= MaxStamp - MillisOf(W)})
                  /\ \A j, k \in 1..Len(view) : j < k => view[j].ts_ms <= view[k].ts_ms
                  /\ \E j \in 1..Len(view) : view[j].ts_ms = MaxStamp
            /\ W = windowSec => view = ChartWindow

\* the buffer holds the row of T + 10 s and then the row of T; the window
\* of 10 s holds both, the older first, and the window of 0 s the newer
WitC24 ==
    /\ rows = <<cAtT10, cSeconds>>
    /\ ChartWindow = <<[row |-> cSeconds, ts_ms |-> 170000000],
                       [row |-> cAtT10, ts_ms |-> 170000001]>>
    /\ windowed(rowsWithTs(rows), 0) = <<[row |-> cAtT10, ts_ms |-> 170000001]>>

\* the four fields in the order of their priority
StampFields == <<kTs, kTime, kT, kTimestamp>>

\* the field holds a number or a date
Yields(v) == v.t = "num" \/ (v.t = "str" /\ v.s = isoText)

Derivable(r) == \E i \in 1..4 : Yields(Get(r, StampFields[i]))

\* the timestamp of the first field that yields one: seconds below 1e12,
\* milliseconds from 1e12 on
StampOf(r) ==
    LET v == Get(r, StampFields[MinOf({i \in 1..4 : Yields(Get(r, StampFields[i]))})])
    IN  IF v.t = "str" THEN 170000000
        ELSE IF v.n < 100000000 THEN v.n * 1000 ELSE v.n

(***************************************************************************)
(* C25.  The timestamp of a row is that of the first of ts, time, t and    *)
(* timestamp that yields one, a field of lower priority being used only    *)
(* when those before it are absent or unparsable; a number below 1e12 is   *)
(* multiplied by 1000, one from 1e12 on is taken as it is.  A row without  *)
(* a timestamp is in no window view, and is buffered like any other row.   *)
(***************************************************************************)
ThmC25 ==
    /\ LET kept == SelectSeq(rows, Derivable)
       IN  rowsWithTs(rows) =
               [i \in 1..Len(kept) |-> [row |-> kept[i], ts_ms |-> StampOf(kept[i])]]
    /\ \A W \in WindowLengths :
          LET view == windowed(rowsWithTs(rows), W)
          IN  \A j \in 1..Len(view) :
                  Derivable(view[j].row) /\ view[j].ts_ms = StampOf(view[j].row)
    /\ rows = LastN(accepted, IF Len(accepted) < maxRows THEN Len(accepted) ELSE maxRows)

\* a row whose ts is a text and whose time is T + 20 s, then a row without
\* a timestamp: the buffer is full with the two, the window holds the first
WitC25 ==
    /\ Len(accepted) > maxRows
    /\ rows[Len(rows) - 1] = cTsText
    /\ rows[Len(rows)] = cNoStamp
    /\ Len(rows) = maxRows
    /\ ChartWindow = <<[row |-> cTsText, ts_ms |-> 170000002]>>

\* the place that comes last when the tokens are read from token 0 on and
\* each token from left to right
LastInTokenOrder(places) ==
    CHOOSE p \in places :
        \A q \in places : q[1] < p[1] \/ (q[1] = p[1] /\ q[2] <= p[2])

\* the place that comes last when the tokens are read from the last one
\* back to token 0 and each token from left to right
LastInDisplayOrder(places) ==
    CHOOSE p \in places :
        \A q \in places : q[1] > p[1] \/ (q[1] = p[1] /\ q[2] <= p[2])

(***************************************************************************)
(* C26.  A matrix line that holds several rover digits gives the pose of   *)
(* the one met last when the row tokens are read in storage order, token 0 *)
(* first and the last token last, each from left to right.  As stated this *)
(* fails: the decoder reads the last token first and token 0 last.         *)
(***************************************************************************)
CexC26 ==
    LET tokens == TrimAll(RowTokensOf(SerialEvText))
    IN  (/\ AppliedNow
         /\ Len(tokens) <= GRID_ROWS
         /\ Cardinality(RoverPlaces(tokens)) > 1)
            => pose = PoseOfPlace(tokens, LastInTokenOrder(RoverPlaces(tokens)))

(***************************************************************************)
(* C26, amended.  The pose is that of the rover digit met last when the    *)
(* row tokens are read in display order, the last token first and token 0  *)
(* last, each from left to right: the rightmost rover digit of the lowest  *)
(* token that holds one.                                                   *)
(***************************************************************************)
ThmC26 ==
    LET tokens == TrimAll(RowTokensOf(SerialEvText))
    IN  (/\ AppliedNow
         /\ Len(tokens) <= GRID_ROWS
         /\ Cardinality(RoverPlaces(tokens)) > 1)
            => pose = PoseOfPlace(tokens, LastInDisplayOrder(RoverPlaces(tokens)))

\* of the digits 3 and 4 in token 1 and 5 in token 2, the 4 gives the pose
WitC26 ==
    /\ AppliedNow
    /\ SerialEvText = G_RoversApart
    /\ Cardinality(RoverPlaces(TrimAll(RowTokensOf(SerialEvText)))) = 3
    /\ pose = [row |-> 1, col |-> 1, dir |-> "W"]
    /\ prev.gridc.pose # pose

(***************************************************************************)
(* C27.  While the grid is shown it is the decode of the matrix line       *)
(* accepted last since the last reset, or the empty grid when none was     *)
(* accepted since, whatever frames, resets and toggles came before, and    *)
(* also when that line is the text of a line accepted before the reset.    *)
(***************************************************************************)
CexC27 ==
    showGrid =>
        grid = IF sinceReset.some /\ parseMatrixLine(sinceReset.val).ok
               THEN parseMatrixLine(sinceReset.val).grid
               ELSE createEmptyGrid

\* the same for a line that differs from the previous lastMatrixLine
AppliedWhenNew ==
    showGrid /\ sinceReset.some /\ ev.kind = "feed" /\ lastMatrixLine # prev.feed.matrix
        => grid = parseMatrixLine(sinceReset.val).grid

(***************************************************************************)
(* C28.  "B64_IMAGE_END" leaves the capture Idle with no chunks whatever   *)
(* the state before it; when no chunk was held, or the capture was Idle    *)
(* already, no image is emitted and the retained image stays.              *)
(***************************************************************************)
ThmC28 ==
    SerialEv /\ SerialEvText = B64_IMAGE_END
        => /\ capture = [pending |-> FALSE, chunks |-> <<>>]
           /\ ~prev.feed.capture.pending \/ prev.feed.capture.chunks = <<>>
                  => lastImageDataUrl = prev.feed.image

\* an END right after a START, with an image retained from an earlier
\* capture: the capture is Idle again and the image is still there
WitC28 ==
    /\ SerialEv
    /\ SerialEvText = B64_IMAGE_END
    /\ prev.feed.capture = [pending |-> TRUE, chunks |-> <<>>]
    /\ prev.feed.image.some
    /\ capture = IdleCapture
    /\ lastImageDataUrl = prev.feed.image

\* the comma-separated tokens of the line, those after the first "M", and
\* whether there is an "M"
HasMToken(line) == \E i \in 1..Len(Split(line)) : Split(line)[i] = <<"M">>
FirstM(line) == MinOf({i \in 1..Len(Split(line)) : Split(line)[i] = <<"M">>})

(***************************************************************************)
(* C29.  A line handed to the decoder that has no token equal to "M", or   *)
(* no token after the "M", changes nothing: grid and pose are what they    *)
(* were.  A line with an "M" and tokens after it replaces the grid.        *)
(***************************************************************************)
ThmC29 ==
    ev.kind = "prop" =>
        LET line == lastMatrixLine.val
        IN  /\ ~HasMToken(line) \/ FirstM(line) = Len(Split(line))
                  => grid = prev.gridc.grid /\ pose = prev.gridc.pose
            /\ (/\ HasMToken(line)
                /\ FirstM(line) < Len(Split(line))
                /\ lastMatrixLine # prev.feed.matrix)
                  => Len(grid) = Len(Split(line)) - FirstM(line)

\* "x,M" was handed to a grid that shows another line's obstacles and a
\* rover heading east: both are still there
WitC29 ==
    /\ ev.kind = "prop"
    /\ lastMatrixLine = Some(P_MLast)
    /\ prev.feed.matrix = Some(G_East)
    /\ grid = parseMatrixLine(G_East).grid
    /\ grid # createEmptyGrid
    /\ pose = [row |-> 1, col |-> 0, dir |-> "E"]

\* every line the hook keeps as lastMatrixLine decodes
HookLinesParse == lastMatrixLine.some => parseMatrixLine(lastMatrixLine.val).ok

\* the row token that display row v (0-based) of the decode is built from
SourceToken(tokens, v) ==
    tokens[((IF Len(tokens) < GRID_ROWS THEN Len(tokens) ELSE GRID_ROWS) - 1 - v) + 1]

IsBlank(token) == \A i \in 1..Len(token) : IsSpace(token[i])

\* row is built from the characters chars: one cell per character, an
\* obstacle where the character is "1", none of them visited
CellsFollow(row, chars) ==
    /\ Len(row) = Len(chars)
    /\ \A c \in 1..Len(row) :
          /\ row[c].obstacle <=> chars[c] = "1"
          /\ ~row[c].visited

TenEmptyCells(row) ==
    /\ Len(row) = 10
    /\ \A c \in 1..10 : row[c] = [visited |-> FALSE, obstacle |-> FALSE]

(***************************************************************************)
(* C30.  In a decoded grid the cell at display row v, column c, is an      *)
(* obstacle exactly when character c of the source token is "1"; rover     *)
(* digits and other characters give cells without obstacle, a blank token  *)
(* a row of 10 empty cells, and no cell is visited.  As stated this fails  *)
(* for a token that starts with white space: the decoder takes the         *)
(* characters of the trimmed token.                                        *)
(***************************************************************************)
CexC30 ==
    AppliedNow =>
        LET tokens == RowTokensOf(SerialEvText)
        IN  \A v \in 0..(Len(grid) - 1) :
                IF IsBlank(SourceToken(tokens, v)) THEN TenEmptyCells(grid[v + 1])
                ELSE \A c \in 1..Len(grid[v + 1]) :
                        /\ grid[v + 1][c].obstacle <=> SourceToken(tokens, v)[c] = "1"
                        /\ ~grid[v + 1][c].visited

(***************************************************************************)
(* C30, amended.  The same with character c counted in the source token    *)
(* after the white space around it is removed.                             *)
(***************************************************************************)
ThmC30 ==
    AppliedNow =>
        LET tokens == RowTokensOf(SerialEvText)
        IN  \A v \in 0..(Len(grid) - 1) :
                IF IsBlank(SourceToken(tokens, v)) THEN TenEmptyCells(grid[v + 1])
                ELSE CellsFollow(grid[v + 1], Trim(SourceToken(tokens, v)))

\* " 10", " " and "1x31" were decoded: obstacles at the first and the last
\* cell of the top row, ten empty cells below it, an obstacle at the first
\* cell of the bottom row
WitC30 ==
    /\ AppliedNow
    /\ SerialEvText = G_Mixed
    /\ Len(grid) = 3
    /\ [c \in 1..4 |-> grid[1][c].obstacle] = <<TRUE, FALSE, FALSE, TRUE>>
    /\ TenEmptyCells(grid[2])
    /\ [c \in 1..2 |-> grid[3][c].obstacle] = <<TRUE, FALSE>>

(***************************************************************************)
(* C31.  The position displayed is x = pose.col - 0, y = 9 - pose.row,     *)
(* the origin being the initial pose: the grid shows (0, 0) facing N when  *)
(* it is mounted with no matrix line and right after every reset.          *)
(***************************************************************************)
ThmC31 ==
    /\ Display.pos = [x |-> pose.col - 0, y |-> 9 - pose.row]
    /\ Display.dir = pose.dir
    /\ ev.kind = "reset" => Display = [pos |-> [x |-> 0, y |-> 0], dir |-> "N"]
    /\ ~lastMatrixLine.some => Display = [pos |-> [x |-> 0, y |-> 0], dir |-> "N"]

\* a reset has brought the display back from (3, 9) to (0, 0)
WitC31 ==
    /\ ev.kind = "reset"
    /\ toDisplayCoords(prev.gridc.pose) = [x |-> 3, y |-> 9]
    /\ Display = [pos |-> [x |-> 0, y |-> 0], dir |-> "N"]

(***************************************************************************)
(* C32.  After any sequence of frames the image App hands to the display,  *)
(* recomputed from consoleLines, is the image the hook retains, none being *)
(* none.                                                                   *)
(***************************************************************************)
CexC32 == latestImageDataUrl = lastImageDataUrl

(***************************************************************************)
(* C33.  In every reachable state of useWebSocketFeed a capture that is    *)
(* not pending holds no chunks.                                            *)
(***************************************************************************)
ThmC33 == ~capture.pending => capture.chunks = <<>>

\* an END has closed a capture that held chunks, on the socket opened by a
\* reconnect: nothing is pending and no chunk is left
WitC33 ==
    /\ SerialEv
    /\ SerialEvText = B64_IMAGE_END
    /\ prev.feed.capture.pending
    /\ prev.feed.capture.chunks # <<>>
    /\ socketRef = 2
    /\ ~capture.pending
    /\ capture.chunks = <<>>

\* the socket created last: the current connection
CurrentSocket == MaxOf({s \in 1..MaxSockets : sockets[s] # "unborn"})

(***************************************************************************)
(* C34.  Events of a socket that has been replaced change neither status   *)
(* nor socketRef of the current connection: socketRef is the socket        *)
(* created last until that socket closes, status is "open" exactly when    *)
(* that socket is open, and at most one socket is open and delivers        *)
(* frames.                                                                 *)
(***************************************************************************)
CexC34 ==
    /\ socketRef = IF sockets[CurrentSocket] = "closed" THEN 0 ELSE CurrentSocket
    /\ status = "open" <=> sockets[CurrentSocket] = "open"
    /\ Cardinality({s \in 1..MaxSockets : sockets[s] = "open"}) <= 1

(***************************************************************************)
(* C35.  A telemetry frame changes nothing but rows and an image frame     *)
(* nothing but lastImageDataUrl: capture, consoleLines and lastMatrixLine  *)
(* stay.  Hence, with such frames among the lines of a capture, the chunks *)
(* held and the image emitted at "B64_IMAGE_END" are made of the serial    *)
(* lines since the START alone.                                            *)
(***************************************************************************)
ThmC35 ==
    /\ TelemetryEv => Feed = [prev.feed EXCEPT !.rows = rows]
    /\ ImageEv => Feed = [prev.feed EXCEPT !.image = lastImageDataUrl]
    /\ capture.pending => capture.chunks = TrimAll(sinceStart.lines)
    /\ EmittedNow => lastImageDataUrl = JpegUrl(Join(TrimAll(sinceStart.lines)))

\* an image frame has arrived while a capture was pending with a chunk,
\* after a telemetry frame: the capture still holds the chunk
WitC35 ==
    /\ ImageEv
    /\ prev.feed.capture = [pending |-> TRUE, chunks |-> <<cAGVs>>]
    /\ rows # <<>>
    /\ lastImageDataUrl = Some(uPng)
    /\ capture = prev.feed.capture

\* the alias tables of the panel
AliasLists == {NAMES_rssi, NAMES_temp1, NAMES_hum1, NAMES_vEsp, NAMES_iEsp, NAMES_pEsp, NAMES_dist1}

(***************************************************************************)
(* C36.  What getField returns depends on the entries of the record and on *)
(* the alias list alone: the record shown resolves every alias list to the *)
(* same value in whatever order its keys were inserted.                    *)
(***************************************************************************)
CexC36 ==
    records # <<>> =>
        \A d \in Reorderings(Shown) : \A names \in AliasLists :
            getField(d, names) = getField(Shown, names)

\* the same for the records that hold no two keys equal up to case and
\* separators
OrderFreeWithoutCollision ==
    records # <<>> /\ (\A i, j \in 1..Len(Shown.o) :
                          norm(Shown.o[i].k) = norm(Shown.o[j].k) => i = j)
        => \A d \in Reorderings(Shown) : \A names \in AliasLists :
               getField(d, names) = getField(Shown, names)

(***************************************************************************)
(* C37.  The pose held by the grid is always inside the 10 x 10 grid:      *)
(* 0 <= row <= 9 and 0 <= col <= 9.                                        *)
(***************************************************************************)
CexC37 ==
    /\ 0 <= pose.row /\ pose.row <= 9
    /\ 0 <= pose.col /\ pose.col <= 9


(***************************************************************************)
(* VisualColumn.tsx: the camera card, its own WebSocket and its snapshot   *)
(* button.  A state setter called after the unmount changes nothing.       *)
(***************************************************************************)
tCameraBase64 == <<"c", "a", "m", "e", "r", "a", "_", "b", "a", "s", "e", "6", "4">>

\* /^data:(.+?);base64,/.exec(url), lines 72-73: the shortest non-empty text
\* between "data:" and the first ";base64," that follows it
DataUrlMime(url) ==
    LET ends == {k \in 1..Len(url) :
                    /\ StartsWith(url, DataPrefix)
                    /\ Len(DataPrefix) + k + Len(Base64Infix) <= Len(url)
                    /\ SubSeq(url, Len(DataPrefix) + k + 1,
                              Len(DataPrefix) + k + Len(Base64Infix)) = Base64Infix}
    IN  IF ends = {} THEN Null
        ELSE LET k == CHOOSE x \in ends : \A y \in ends : x <= y
             IN  Some(SubSeq(url, Len(DataPrefix) + 1, Len(DataPrefix) + k))

\* the state of the camera card
Visual ==
    [wsStatus |-> wsStatus, isCapturing |-> isCapturing,
     lastFrame |-> lastFrame, frameMime |-> frameMime]

\* the effect on [imageDataUrl], lines 67-79, run with the prop's new value
ImageEffect(vs, url) ==
    IF ~url.some \/ url.val = <<>> THEN vs
    ELSE [vs EXCEPT !.lastFrame = url,
                    !.isCapturing = FALSE,
                    !.frameMime = IF DataUrlMime(url.val).some
                                  THEN DataUrlMime(url.val).val ELSE ImageJpeg]

\* ws.onmessage, lines 99-111
OnCameraMessage(vs, msg) ==
    IF ~msg.ok THEN vs
    ELSE IF Get(msg.v, kType) = JStr(tCameraBase64) /\ Get(msg.v, kData).t = "str"
    THEN LET mime == IF Falsy(Get(msg.v, kMime)) THEN ImageJpeg
                     ELSE StringOf(Get(msg.v, kMime))
         IN  [vs EXCEPT !.frameMime = mime,
                        !.lastFrame = Some(DataUrl(mime, Get(msg.v, kData).s)),
                        !.isCapturing = FALSE]
    ELSE vs

\* the state setters act on a mounted component only
SetVisual(vs) ==
    /\ wsStatus' = IF alive THEN vs.wsStatus ELSE wsStatus
    /\ isCapturing' = IF alive THEN vs.isCapturing ELSE isCapturing
    /\ lastFrame' = IF alive THEN vs.lastFrame ELSE lastFrame
    /\ frameMime' = IF alive THEN vs.frameMime ELSE frameMime

NoFeedChange ==
    UNCHANGED <<feedVars, connVars, panelVars, gridVars,
                accepted, sinceStart, dropped, sinceReset>>

\* ws.onopen, line 92
VisualOpen(s) ==
    /\ visualSockets[s] = "connecting"
    /\ visualSockets' = [visualSockets EXCEPT ![s] = "open"]
    /\ SetVisual([Visual EXCEPT !.wsStatus = "open"])
    /\ Record("visualOpen", NoMsg)
    /\ UNCHANGED <<alive, wsRef, timers, imageDataUrl, nframes>>
    /\ NoFeedChange

\* ws.onerror, line 93: the connection fails; its close event follows
VisualError(s) ==
    /\ visualSockets[s] \in {"connecting", "open"}
    /\ visualSockets' = [visualSockets EXCEPT ![s] = "closing"]
    /\ SetVisual([Visual EXCEPT !.wsStatus = "error"])
    /\ Record("visualError", NoMsg)
    /\ UNCHANGED <<alive, wsRef, timers, imageDataUrl, nframes>>
    /\ NoFeedChange

\* ws.onclose, lines 94-98: while the component is mounted it schedules
\* connect() in one second; after the unmount it returns at once
VisualClose(s) ==
    /\ visualSockets[s] \in {"connecting", "open", "closing"}
    /\ visualSockets' = [visualSockets EXCEPT ![s] = "closed"]
    /\ SetVisual([Visual EXCEPT !.wsStatus = "closed"])
    /\ timers' = IF alive THEN timers + 1 ELSE timers
    /\ Record("visualClose", NoMsg)
    /\ UNCHANGED <<alive, wsRef, imageDataUrl, nframes>>
    /\ NoFeedChange

\* a reconnect timer fires and calls connect(), lines 86-115: connect()
\* never reads alive, and the cleanup clears no timer
VisualTimer ==
    /\ timers > 0
    /\ \E s \in 1..MaxVisualSockets :
        /\ visualSockets[s] = "unborn"
        /\ \A r \in 1..(s - 1) : visualSockets[r] # "unborn"
        /\ visualSockets' = [visualSockets EXCEPT ![s] = "connecting"]
        /\ wsRef' = s
    /\ timers' = timers - 1
    /\ SetVisual([Visual EXCEPT !.wsStatus = "connecting"])
    /\ Record("visualTimer", NoMsg)
    /\ UNCHANGED <<alive, imageDataUrl, nframes>>
    /\ NoFeedChange

\* the cleanup of the effect, lines 119-124: alive = false and
\* wsRef.current?.close()
VisualUnmount ==
    /\ alive
    /\ alive' = FALSE
    /\ visualSockets' =
          IF visualSockets[wsRef] \in {"connecting", "open"}
          THEN [visualSockets EXCEPT ![wsRef] = "closing"]
          ELSE visualSockets
    /\ Record("visualUnmount", NoMsg)
    /\ UNCHANGED <<wsRef, timers, wsStatus, isCapturing, lastFrame, frameMime,
                   imageDataUrl, nframes>>
    /\ NoFeedChange

\* a message arrives on socket s
VisualMessage(s, msg) ==
    /\ visualSockets[s] = "open"
    /\ SetVisual(OnCameraMessage(Visual, msg))
    /\ nframes' = nframes + 1
    /\ Record("visualMessage", msg)
    /\ UNCHANGED <<alive, wsRef, visualSockets, timers, imageDataUrl>>
    /\ NoFeedChange

\* the snapshot button, line 330, enabled while wsStatus is "open" and no
\* capture is awaited, with requestSnapshot, lines 174-179
RequestSnapshot ==
    /\ alive
    /\ wsStatus = "open" /\ ~isCapturing
    /\ isCapturing' = (visualSockets[wsRef] = "open")
    /\ nframes' = nframes + 1
    /\ Record("requestSnapshot", NoMsg)
    /\ UNCHANGED <<alive, wsRef, visualSockets, timers, wsStatus, lastFrame,
                   frameMime, imageDataUrl>>
    /\ NoFeedChange

\* App renders VisualColumn with imageDataUrl = url, App.tsx line 168 and
\* PanelColumns.tsx line 82: the effect on [imageDataUrl] runs when the value
\* differs from the one of the render before
VisualProp(url) ==
    /\ alive
    /\ imageDataUrl' = url
    /\ SetVisual(IF url # imageDataUrl THEN ImageEffect(Visual, url) ELSE Visual)
    /\ nframes' = nframes + 1
    /\ Record("imageProp", NoMsg)
    /\ UNCHANGED <<alive, wsRef, visualSockets, timers>>
    /\ NoFeedChange

\* {"type":"camera_base64","data":"aGVs"}
fCamera == Msg(JObj(<<KV(kType, JStr(tCameraBase64)), KV(kData, JStr(cAGVs))>>))
\* {"type":"camera_base64","data":"Zg","mime":"image/png"}
fCameraPng ==
    Msg(JObj(<<KV(kType, JStr(tCameraBase64)), KV(kData, JStr(<<"Z", "g">>)),
               KV(kMime, JStr(ImagePng))>>))
\* {"type":"camera_base64"}
fCameraNoData == Msg(JObj(<<KV(kType, JStr(tCameraBase64))>>))
CameraFrames == {fCamera, fCameraPng, fCameraNoData, fTelemetryRow, BadText(TRUE)}

\* the values of App's latestImageDataUrl: none, and the data URLs of two
\* captures
ImageProps == {Null, JpegUrl(cAGVs), Some(uPng)}

NextVisual ==
    \/ \E s \in 1..MaxVisualSockets : VisualOpen(s)
    \/ \E s \in 1..MaxVisualSockets : VisualError(s)
    \/ \E s \in 1..MaxVisualSockets : VisualClose(s)
    \/ VisualTimer
    \/ VisualUnmount
    \/ \E s \in 1..MaxVisualSockets : \E msg \in CameraFrames :
          nframes < MaxFrames /\ VisualMessage(s, msg)
    \/ nframes < MaxFrames /\ RequestSnapshot
    \/ \E url \in ImageProps : nframes < MaxFrames /\ VisualProp(url)

SpecVisual == Init /\ [][NextVisual]_vars


\* the same behaviours under the scheduling the browser guarantees: a timer
\* that is due fires, and a socket that is closing reaches its close event;
\* nothing obliges the network to send a message or the user to act
SpecVisualLive ==
    /\ SpecVisual
    /\ WF_vars(VisualTimer)
    /\ \A s \in 1..MaxVisualSockets :
          WF_vars(visualSockets[s] = "closing" /\ VisualClose(s))

(***************************************************************************)
(* C38.  After VisualColumn is unmounted no new WebSocket is created by    *)
(* the component, not even by a reconnect timer scheduled before the       *)
(* unmount, and no socket the component created is connecting or open.     *)
(***************************************************************************)
CexC38 ==
    ~alive =>
        /\ ev.kind # "visualTimer"
        /\ \A s \in 1..MaxVisualSockets : visualSockets[s] \notin {"connecting", "open"}

\* the last event completed an image capture: App rendered the card with an
\* image as imageDataUrl, or a camera_base64 message with its data arrived
CaptureCompleted ==
    /\ alive
    /\ \/ ev.kind = "imageProp" /\ imageDataUrl.some
       \/ /\ ev.kind = "visualMessage" /\ ev.data.ok
          /\ Get(ev.data.v, kType) = JStr(tCameraBase64)
          /\ Get(ev.data.v, kData).t = "str"

(***************************************************************************)
(* C39.  Once requestSnapshot has set isCapturing, the completion of an    *)
(* image capture, whether its data URL is new or identical to the one      *)
(* displayed, leads to isCapturing being false again.                      *)
(***************************************************************************)
CexC39 == (isCapturing /\ CaptureCompleted) ~> ~isCapturing

\* a camera_base64 message with its data does end the wait
CameraMessageEndsTheWait ==
    CaptureCompleted /\ ev.kind = "visualMessage" => ~isCapturing

=============================================================================
